---------------------------- MODULE Spec2Model ----------------------------
(***************************************************************************)
(* Perfume Tracker (src/perfume_tracker.py): vote scores and summaries,    *)
(* the list filter, and the reference tables (brands, tags,                *)
(* concentrations, outlets, purchase types) with the perfumes that refer   *)
(* to them.                                                                *)
(*                                                                         *)
(* Conventions of the translation                                          *)
(*  - a Python dict that is iterated in insertion order (the mapping       *)
(*    tables) is a sequence of entries; a vote dict is a function from     *)
(*    option keys to counts, the empty dict being the empty function;      *)
(*  - a float score weighted_sum / total is the exact fraction             *)
(*    [num, den]; comparisons cross-multiply.  For the totals reached here *)
(*    (den < 40) the float results of the source (division, :.2f, round)   *)
(*    coincide with the exact ones;                                        *)
(*  - uuid4 ids are the successive values of a counter; the empty string   *)
(*    used as "no id" is NoId.                                             *)
(***************************************************************************)
EXTENDS Integers, Sequences, FiniteSets, TLC

(***************************************************************************)
(* Bounds of the model.                                                    *)
(***************************************************************************)
MaxCount == 3        \* vote counts of a sum-normalised block are 0..MaxCount

\* vote counts tried for the season/time block (threshold cases 0.6 * max)
WhenCounts == {0, 10, 50, 60, 100}

(***************************************************************************)
(* Option lists, lines 52-66.                                              *)
(***************************************************************************)
RATING_5 == <<"love", "like", "ok", "dislike", "hate">>
SEASON_TIME_6 == <<"spring", "summer", "fall", "winter", "day", "night">>
LONGEVITY_5 == <<"eternal", "long", "moderate", "weak", "poor">>
SILLAGE_4 == <<"enormous", "strong", "moderate", "intimate">>
GENDER_5 == <<"male", "more_male", "unisex", "more_female", "female">>
VALUE_5 == <<"excellent", "good", "fair", "expensive", "overpriced">>

VOTE_BLOCKS ==
    << [block |-> "rating_votes", keys |-> RATING_5],
       [block |-> "season_time_votes", keys |-> SEASON_TIME_6],
       [block |-> "longevity_votes", keys |-> LONGEVITY_5],
       [block |-> "sillage_votes", keys |-> SILLAGE_4],
       [block |-> "gender_votes", keys |-> GENDER_5],
       [block |-> "value_votes", keys |-> VALUE_5] >>

BlockNames == {VOTE_BLOCKS[i].block : i \in 1..Len(VOTE_BLOCKS)}

BlockKeys(block) ==
    VOTE_BLOCKS[CHOOSE i \in 1..Len(VOTE_BLOCKS) : VOTE_BLOCKS[i].block = block].keys

KeySet(keys) == {keys[i] : i \in 1..Len(keys)}

\* key.replace("_", " ")
display_label(key) ==
    CASE key = "more_male" -> "more male"
      [] key = "more_female" -> "more female"
      [] OTHER -> key

(***************************************************************************)
(* Vote dicts.                                                             *)
(***************************************************************************)
EmptyVotes == [k \in {} |-> 0]

\* int(votes.get(k, 0) or 0)
VoteGet(votes, k) == IF k \in DOMAIN votes THEN votes[k] ELSE 0

\* sum(int(votes.get(k, 0) or 0) for k in keys), from position i on
RECURSIVE SumVotes(_, _, _)
SumVotes(votes, keys, i) ==
    IF i > Len(keys) THEN 0
    ELSE VoteGet(votes, keys[i]) + SumVotes(votes, keys, i + 1)

\* sum(int(votes.get(k, 0) or 0) * weights[k] for k in keys)
RECURSIVE WeightedSum(_, _, _, _)
WeightedSum(votes, keys, weights, i) ==
    IF i > Len(keys) THEN 0
    ELSE VoteGet(votes, keys[i]) * weights[i]
         + WeightedSum(votes, keys, weights, i + 1)

\* max(int(votes.get(k, 0) or 0) for k in keys)
RECURSIVE MaxVotes(_, _, _)
MaxVotes(votes, keys, i) ==
    IF i > Len(keys) THEN 0
    ELSE LET rest == MaxVotes(votes, keys, i + 1)
             v == VoteGet(votes, keys[i])
         IN IF v >= rest THEN v ELSE rest

\* mutant: rating weighted in ascending order like the other blocks
RatingWeights_ascending == <<1, 2, 3, 4, 5>>

\* weights = {keys[0]: 5, keys[1]: 4, keys[2]: 3, keys[3]: 2, keys[4]: 1}
RatingWeights == <<5, 4, 3, 2, 1>>

\* weights = {keys[i]: i+1 for i in range(len(keys))}
AscendingWeights(keys) == [i \in 1..Len(keys) |-> i]

(***************************************************************************)
(* Scores are fractions; 0.0 is the "no data" score.                       *)
(***************************************************************************)
\* mutant: an empty tally scored as the minimum instead of "no data"
ZeroScore_minimum == [num |-> 1, den |-> 1]

ZeroScore == [num |-> 0, den |-> 1]

WeightedScore(votes, keys, weights) ==
    LET total == SumVotes(votes, keys, 1)
    IN IF total = 0 THEN ZeroScore
       ELSE [num |-> WeightedSum(votes, keys, weights, 1), den |-> total]

calculate_rating_score(votes, keys) == WeightedScore(votes, keys, RatingWeights)

calculate_longevity_score(votes, keys) ==
    WeightedScore(votes, keys, AscendingWeights(keys))

calculate_sillage_score(votes, keys) ==
    WeightedScore(votes, keys, AscendingWeights(keys))

calculate_gender_score(votes, keys) ==
    WeightedScore(votes, keys, AscendingWeights(keys))

calculate_value_score(votes, keys) ==
    WeightedScore(votes, keys, AscendingWeights(keys))

\* a <= b, a < b and a = b on fractions
ScoreLeq(a, b) == a.num * b.den <= b.num * a.den
ScoreLt(a, b) == a.num * b.den < b.num * a.den
ScoreEq(a, b) == a.num * b.den = b.num * a.den

(***************************************************************************)
(* Summaries, lines 470-576.                                               *)
(***************************************************************************)
\* the em dash (U+2014) the summaries return for "no data", in ASCII
NoData == "-"

Digit(d) == <<"0", "1", "2", "3", "4", "5", "6", "7", "8", "9">>[d + 1]

\* round half to even of n / d (d > 0, n >= 0): Python round() and the
\* rounding of the format specification on exactly representable ties
RoundHalfEven(n, d) ==
    LET q == n \div d
        r == n % d
    IN IF 2 * r > d \/ (2 * r = d /\ q % 2 = 1) THEN q + 1 ELSE q

\* f"{score:.2f}" for 0 <= score < 10
Format2(score) ==
    LET h == RoundHalfEven(100 * score.num, score.den)
    IN Digit(h \div 100) \o "." \o Digit((h \div 10) % 10) \o Digit(h % 10)

RECURSIVE Join(_, _)
Join(parts, sep) ==
    IF parts = <<>> THEN ""
    ELSE IF Len(parts) = 1 THEN parts[1]
    ELSE parts[1] \o sep \o Join(Tail(parts), sep)

RECURSIVE SelectKeys(_, _)
SelectKeys(keys, S) ==
    IF keys = <<>> THEN <<>>
    ELSE IF Head(keys) \in S THEN <<Head(keys)>> \o SelectKeys(Tail(keys), S)
    ELSE SelectKeys(Tail(keys), S)

Labels(keys) == [i \in 1..Len(keys) |-> display_label(keys[i])]

calculate_rating_summary(votes, keys) ==
    LET total == SumVotes(votes, keys, 1)
    IN IF total = 0 THEN NoData
       ELSE Format2([num |-> WeightedSum(votes, keys, RatingWeights, 1),
                     den |-> total])

calculate_longevity_summary(votes, keys) ==
    LET total == SumVotes(votes, keys, 1)
    IN IF total = 0 THEN NoData
       ELSE Format2([num |-> WeightedSum(votes, keys, AscendingWeights(keys), 1),
                     den |-> total])

calculate_sillage_summary(votes, keys) ==
    LET total == SumVotes(votes, keys, 1)
    IN IF total = 0 THEN NoData
       ELSE Format2([num |-> WeightedSum(votes, keys, AscendingWeights(keys), 1),
                     den |-> total])

\* index = round(score - 1); index = max(0, min(len(keys)-1, index))
NearestOption(votes, keys) ==
    LET total == SumVotes(votes, keys, 1)
        ws == WeightedSum(votes, keys, AscendingWeights(keys), 1)
        index == RoundHalfEven(ws - total, total)
        hi == IF Len(keys) - 1 <= index THEN Len(keys) - 1 ELSE index
        clamped == IF hi >= 0 THEN hi ELSE 0
    IN display_label(keys[clamped + 1])

calculate_gender_summary(votes, keys) ==
    IF SumVotes(votes, keys, 1) = 0 THEN NoData ELSE NearestOption(votes, keys)

calculate_value_summary(votes, keys) ==
    IF SumVotes(votes, keys, 1) = 0 THEN NoData ELSE NearestOption(votes, keys)

AllSeasons == <<"spring", "summer", "fall", "winter">>
AllTimes == <<"day", "night">>

\* mutant: threshold at half of the maximum
TopOptions_half(votes, keys) ==
    LET max_votes == MaxVotes(votes, keys, 1)
    IN SelectKeys(keys, {k \in KeySet(keys) :
                            10 * VoteGet(votes, k) >= 5 * max_votes})

\* top_options = [k for k in keys if int(votes.get(k, 0) or 0) >= threshold]
\* with threshold = max_votes * 0.6 (count >= threshold iff 10*count >= 6*max
\* for the integer counts of a tally)
TopOptions(votes, keys) ==
    LET max_votes == MaxVotes(votes, keys, 1)
    IN SelectKeys(keys, {k \in KeySet(keys) :
                            10 * VoteGet(votes, k) >= 6 * max_votes})

\* mutant: three top seasons listed instead of abbreviated
SeasonPhrase_listed(seasons) ==
    IF Len(seasons) = 4 THEN <<"year-round">>
    ELSE IF seasons # <<>> THEN << Join(Labels(seasons), ", ") >>
    ELSE <<>>

SeasonPhrase(seasons) ==
    IF Len(seasons) = 4 THEN <<"year-round">>
    ELSE IF Len(seasons) = 3
         THEN LET missing == SelectKeys(AllSeasons,
                                 KeySet(AllSeasons) \ KeySet(seasons))[1]
              IN << "except " \o display_label(missing) >>
    ELSE IF seasons # <<>> THEN << Join(Labels(seasons), ", ") >>
    ELSE <<>>

\* mutant: both times listed instead of "anytime"
TimePhrase_listed(times) ==
    IF times # <<>> THEN << Join(Labels(times), ", ") >>
    ELSE <<>>

TimePhrase(times) ==
    IF Len(times) = 2 THEN <<"anytime">>
    ELSE IF times # <<>> THEN << Join(Labels(times), ", ") >>
    ELSE <<>>

calculate_when_summary(votes, keys) ==
    IF DOMAIN votes = {} \/ (\A k \in DOMAIN votes : votes[k] = 0) THEN NoData
    ELSE IF MaxVotes(votes, keys, 1) = 0 THEN NoData
    ELSE LET top_options == TopOptions(votes, keys)
             seasons == SelectKeys(top_options, KeySet(AllSeasons))
             times == SelectKeys(top_options, KeySet(AllTimes))
             parts == SeasonPhrase(seasons) \o TimePhrase(times)
         IN IF top_options = <<>> THEN NoData
            ELSE IF parts # <<>> THEN Join(parts, " | ") ELSE NoData

\* summary_funcs of the detail panel (lines 3293-3300)
SummaryOf(block, votes) ==
    CASE block = "rating_votes" -> calculate_rating_summary(votes, RATING_5)
      [] block = "season_time_votes" -> calculate_when_summary(votes, SEASON_TIME_6)
      [] block = "longevity_votes" -> calculate_longevity_summary(votes, LONGEVITY_5)
      [] block = "sillage_votes" -> calculate_sillage_summary(votes, SILLAGE_4)
      [] block = "gender_votes" -> calculate_gender_summary(votes, GENDER_5)
      [] block = "value_votes" -> calculate_value_summary(votes, VALUE_5)

\* the score functions as the filter and the sort call them; the
\* season/time block has none
NoScore == [num |-> -1, den |-> 1]

ScoreOf(block, votes) ==
    CASE block = "rating_votes" -> calculate_rating_score(votes, RATING_5)
      [] block = "longevity_votes" -> calculate_longevity_score(votes, LONGEVITY_5)
      [] block = "sillage_votes" -> calculate_sillage_score(votes, SILLAGE_4)
      [] block = "gender_votes" -> calculate_gender_score(votes, GENDER_5)
      [] block = "value_votes" -> calculate_value_score(votes, VALUE_5)
      [] OTHER -> NoScore

(***************************************************************************)
(* State.                                                                  *)
(***************************************************************************)
VARIABLES
    calc_block,     \* the vote block shown by a CollapsibleVoteBlock
    calc_votes,     \* its community tally (fr_votes)
    calc_score,     \* the score computed for the tally
    calc_summary,   \* the summary rendered in the block title
    calc_done,      \* the block has been rendered
    app_data,       \* App.app_data: the mapping tables and the perfumes list
    perfumes,       \* App.perfumes: the list the handlers read and write
    aliased,        \* App.perfumes is the list object app_data.perfumes
    heap,           \* the Perfume objects, by id
    next_id,        \* source of new_id(): the next unused id
    filter_config,  \* App.filter_config
    sort_config,    \* App.sort_config
    filtered_ids,   \* App.filtered_ids, the rows of the main list
    dlg,            \* the Add/Edit perfume dialog and its pending lists
    msg             \* title of the message box raised by the last handler

calc_vars == <<calc_block, calc_votes, calc_score, calc_summary, calc_done>>

app_vars == <<app_data, perfumes, aliased, heap, next_id, filter_config,
              sort_config, filtered_ids, dlg, msg>>

vars == <<calc_block, calc_votes, calc_score, calc_summary, calc_done,
          app_data, perfumes, aliased, heap, next_id, filter_config,
          sort_config, filtered_ids, dlg, msg>>

(***************************************************************************)
(* Strings.  Text is drawn from a small universe; the string methods the   *)
(* handlers use are tabulated on it.                                       *)
(***************************************************************************)
\* str.strip()
Strip(s) ==
    CASE s = " Chanel " -> "Chanel"
      [] s = " want " -> "want"
      [] s = " Sephora " -> "Sephora"
      [] s = " EDP " -> "EDP"
      [] s = " full " -> "full"
      [] s = " No5 " -> "No5"
      [] OTHER -> s

\* str.lower()
Lower(s) ==
    CASE s = "Chanel" -> "chanel"
      [] s = "Dior" -> "dior"
      [] s = "Summer" -> "summer"
      [] s = "Sephora" -> "sephora"
      [] s = "Macys" -> "macys"
      [] s = "Sephora (NYC)" -> "sephora (nyc)"
      [] s = "Macys (NYC)" -> "macys (nyc)"
      [] s = "EDP" -> "edp"
      [] s = "EDT" -> "edt"
      [] s = "No5" -> "no5"
      [] s = "Sauvage" -> "sauvage"
      [] s = "Want" -> "want"
      [] OTHER -> s

\* the lower-cased strings in the order of Python's str comparison
StringOrder ==
    << "", "chanel", "decant", "dior", "edp", "edt", "full", "gift", "macys",
       "macys (nyc)", "no5", "sauvage", "sephora", "sephora (nyc)", "summer",
       "want" >>

\* a < b on strings
StrLess(a, b) ==
    (CHOOSE i \in 1..Len(StringOrder) : StringOrder[i] = a)
        < (CHOOSE i \in 1..Len(StringOrder) : StringOrder[i] = b)

\* "want" in note.lower()
ContainsWant(note) == note \in {"want", "I want this", "Want more"}

(***************************************************************************)
(* Lists and insertion-ordered dicts.                                      *)
(***************************************************************************)
SeqSet(seq) == {seq[i] : i \in 1..Len(seq)}

\* x in seq
InList(x, seq) == \E i \in 1..Len(seq) : seq[i] = x

\* the list left as it is, repeats included
DictFromKeys_keep_repeats(seq) == seq

\* list(dict.fromkeys(seq)): drop repeats, keep first occurrences in order
RECURSIVE DictFromKeys(_)
DictFromKeys(seq) ==
    IF seq = <<>> THEN <<>>
    ELSE LET init == DictFromKeys(SubSeq(seq, 1, Len(seq) - 1))
             last == seq[Len(seq)]
         IN IF InList(last, init) THEN init ELSE Append(init, last)

\* seq.pop(i) (i counted from 1)
RemoveAt(seq, i) == SubSeq(seq, 1, i - 1) \o SubSeq(seq, i + 1, Len(seq))

\* seq[i], seq[j] = seq[j], seq[i]
Swap(seq, i, j) == [seq EXCEPT ![i] = seq[j], ![j] = seq[i]]

\* the mapping tables: a dict is the sequence of its (id, item) entries
MapKeys(map) == [i \in 1..Len(map) |-> map[i].id]

MapHas(map, id) == \E i \in 1..Len(map) : map[i].id = id

\* map.get(id, default)
MapGet(map, id, default) ==
    IF MapHas(map, id)
    THEN map[CHOOSE i \in 1..Len(map) : map[i].id = id].item
    ELSE default

\* map[id] = item: an existing key keeps its place, a new key goes last
\* mutant: the key is removed and set again, which moves it to the end
MapSet_at_end(map, id, item) ==
    Append(SelectSeq(map, LAMBDA e : e.id # id), [id |-> id, item |-> item])

MapSet(map, id, item) ==
    IF MapHas(map, id)
    THEN [i \in 1..Len(map) |-> IF map[i].id = id
                                THEN [id |-> id, item |-> item] ELSE map[i]]
    ELSE Append(map, [id |-> id, item |-> item])

\* del map[id]
MapDel(map, id) == SelectSeq(map, LAMBDA e : e.id # id)

\* the empty string used as "no id"
NoId == 0

Tabs == {"brands", "tags", "outlets", "concentrations", "purchase_types"}

\* ManageDataDialog._get_current_map
CurrentMap(tab) ==
    CASE tab = "brands" -> app_data.brands_map
      [] tab = "tags" -> app_data.tags_map
      [] tab = "concentrations" -> app_data.concentrations_map
      [] tab = "outlets" -> app_data.outlets_map
      [] tab = "purchase_types" -> app_data.purchase_types_map

\* app_data with the table of the tab replaced
WithMap(ad, tab, map) ==
    CASE tab = "brands" -> [ad EXCEPT !.brands_map = map]
      [] tab = "tags" -> [ad EXCEPT !.tags_map = map]
      [] tab = "concentrations" -> [ad EXCEPT !.concentrations_map = map]
      [] tab = "outlets" -> [ad EXCEPT !.outlets_map = map]
      [] tab = "purchase_types" -> [ad EXCEPT !.purchase_types_map = map]

OutletInfo(name, region) == [name |-> name, region |-> region]

\* f"{item.name}" + (f" ({item.region})" if item.region else "")
OutletDisplay(info) ==
    IF info.region # "" THEN info.name \o " (" \o info.region \o ")"
    ELSE info.name

(***************************************************************************)
(* App lookups, lines 2979-3057.                                           *)
(***************************************************************************)
get_brand_name(brand_id) == MapGet(app_data.brands_map, brand_id, "")

get_concentration_name(conc_id) == MapGet(app_data.concentrations_map, conc_id, "")

get_outlet_info(outlet_id) ==
    MapGet(app_data.outlets_map, outlet_id, OutletInfo("", ""))

get_outlet_display(outlet_id) == OutletDisplay(get_outlet_info(outlet_id))

get_tag_name(tag_id) == MapGet(app_data.tags_map, tag_id, "")

TagNames(p) == [i \in 1..Len(p.tag_ids) |-> get_tag_name(p.tag_ids[i])]

\* first id whose name equals the given one, or NoId
\* mutant: the last entry with the name instead of the first
FindByName_last(map, name) ==
    IF \E i \in 1..Len(map) : map[i].item = name
    THEN map[CHOOSE i \in 1..Len(map) :
                 /\ map[i].item = name
                 /\ \A j \in (i + 1)..Len(map) : map[j].item # name].id
    ELSE NoId

FindByName(map, name) ==
    IF \E i \in 1..Len(map) : map[i].item = name
    THEN map[CHOOSE i \in 1..Len(map) :
                 /\ map[i].item = name
                 /\ \A j \in 1..(i - 1) : map[j].item # name].id
    ELSE NoId

find_brand_id(brand_name) == FindByName(app_data.brands_map, brand_name)

find_tag_id(tag_name) == FindByName(app_data.tags_map, tag_name)

find_outlet_by_name(name) ==
    LET map == app_data.outlets_map
    IN IF \E i \in 1..Len(map) : map[i].item.name = name
       THEN map[CHOOSE i \in 1..Len(map) :
                    /\ map[i].item.name = name
                    /\ \A j \in 1..(i - 1) : map[j].item.name # name].id
       ELSE NoId

\* App.find_or_create_brand_id on a table and the next new_id(): the id, the
\* table and the next new_id() after the call
find_or_create_brand_id(map, next, brand_name) ==
    LET bid == FindByName(map, brand_name)
    IN IF bid # NoId THEN [id |-> bid, map |-> map, next |-> next]
       ELSE [id |-> next, map |-> MapSet(map, next, brand_name), next |-> next + 1]

\* App.find_or_create_tag_id
find_or_create_tag_id(map, next, tag_name) ==
    LET tid == FindByName(map, tag_name)
    IN IF tid # NoId THEN [id |-> tid, map |-> map, next |-> next]
       ELSE [id |-> next, map |-> MapSet(map, next, tag_name), next |-> next + 1]

\* App.find_or_create_outlet: the lookup is find_outlet_by_name on the table
find_or_create_outlet(map, next, name) ==
    IF Strip(name) = "" THEN [id |-> NoId, map |-> map, next |-> next]
    ELSE LET oid == FindByName([i \in 1..Len(map) |->
                                   [id |-> map[i].id, item |-> map[i].item.name]],
                               Strip(name))
         IN IF oid # NoId THEN [id |-> oid, map |-> map, next |-> next]
            ELSE [id |-> next,
                  map |-> MapSet(map, next, OutletInfo(Strip(name), "")),
                  next |-> next + 1]

(***************************************************************************)
(* Derived state, lines 428-464.                                           *)
(***************************************************************************)
\* ml_delta is None (<<>>), a number (<<n>>) or the float nan (<<0, 0>>)
None == <<>>

NaN == <<0, 0>>

IsNaN(x) == Len(x) = 2

\* the sum of derive_state is nan as soon as one delta is
OwnedIsNaN(events) == \E i \in 1..Len(events) : IsNaN(events[i].ml_delta)

RECURSIVE OwnedMl(_)
OwnedMl(events) ==
    IF events = <<>> THEN 0
    ELSE (IF Head(events).ml_delta # None THEN Head(events).ml_delta[1] ELSE 0)
         + OwnedMl(Tail(events))

\* mutant: the clause "On-skin" is appended before the clause "Tested"
StateParts_on_skin_first(p, tag_names) ==
    LET tested == \E i \in 1..Len(p.events) :
                      p.events[i].event_type \in {"smell", "skin"}
        on_skin == \E i \in 1..Len(p.events) : p.events[i].event_type = "skin"
        owned_ml == OwnedMl(p.events)
        want == \/ \E i \in 1..Len(tag_names) : Lower(tag_names[i]) = "want"
                \/ \E i \in 1..Len(p.events) : ContainsWant(p.events[i].note)
    IN (IF on_skin THEN <<"On-skin">> ELSE <<>>)
       \o (IF tested THEN <<"Tested">> ELSE <<>>)
       \o (IF ~OwnedIsNaN(p.events) /\ owned_ml > 0
           THEN <<"Owned " \o ToString(owned_ml) \o "ml">> ELSE <<>>)
       \o (IF want THEN <<"Want">> ELSE <<>>)

\* the clauses of the label; the label is their join, "New" if there is none
StateParts(p, tag_names) ==
    LET tested == \E i \in 1..Len(p.events) :
                      p.events[i].event_type \in {"smell", "skin"}
        on_skin == \E i \in 1..Len(p.events) : p.events[i].event_type = "skin"
        owned_ml == OwnedMl(p.events)
        want == \/ \E i \in 1..Len(tag_names) : Lower(tag_names[i]) = "want"
                \/ \E i \in 1..Len(p.events) : ContainsWant(p.events[i].note)
    IN (IF tested THEN <<"Tested">> ELSE <<>>)
       \o (IF on_skin THEN <<"On-skin">> ELSE <<>>)
       \o (IF ~OwnedIsNaN(p.events) /\ owned_ml > 0
           THEN <<"Owned " \o ToString(owned_ml) \o "ml">> ELSE <<>>)
       \o (IF want THEN <<"Want">> ELSE <<>>)

\* mutant: the owned volume is clamped at 0
derive_state_clamped(p, tag_names) ==
    LET parts == StateParts(p, tag_names)
    IN [state |-> IF parts = <<>> THEN "New" ELSE Join(parts, " | "),
        owned_ml |-> IF OwnedMl(p.events) < 0 THEN 0 ELSE OwnedMl(p.events),
        owned_nan |-> OwnedIsNaN(p.events)]

\* mutant: a perfume that is only wanted is labelled "Wishlist"
derive_state_wishlist(p, tag_names) ==
    LET parts == StateParts(p, tag_names)
    IN [state |-> IF parts = <<>> THEN "New"
                  ELSE IF parts = <<"Want">> THEN "Wishlist"
                  ELSE Join(parts, " | "),
        owned_ml |-> OwnedMl(p.events),
        owned_nan |-> OwnedIsNaN(p.events)]

derive_state(p, tag_names) ==
    LET parts == StateParts(p, tag_names)
    IN [state |-> IF parts = <<>> THEN "New" ELSE Join(parts, " | "),
        owned_ml |-> OwnedMl(p.events),
        owned_nan |-> OwnedIsNaN(p.events)]

\* "Tested" in state: the label holds the word iff it has the Tested clause
HasTestedClause(p, tag_names) == InList("Tested", StateParts(p, tag_names))

(***************************************************************************)
(* The list filter, lines 3506-3632.  Range bounds are in tenths.          *)
(***************************************************************************)
\* (d or {}).get(key, {})
DictGet(d, key) == IF key \in DOMAIN d THEN d[key] ELSE EmptyVotes

\* min <= score <= max with the bounds in tenths
InRange(min10, score, max10) ==
    /\ min10 * score.den <= 10 * score.num
    /\ 10 * score.num <= max10 * score.den

\* the facet as FilterDialog._matches_filter has it: no has_data test
ScoreFacetPasses_without_has_data(min10, max10, full10, exclude, score) ==
    IF min10 > 0 \/ max10 < full10 \/ exclude
    THEN IF exclude THEN ~InRange(min10, score, max10)
         ELSE InRange(min10, score, max10)
    ELSE TRUE

\* mutant: the facet is applied even when its range is the full slider
ScoreFacetPasses_always_active(min10, max10, full10, exclude, score) ==
    LET has_data == score.num > 0
        in_range == InRange(min10, score, max10)
    IN IF exclude THEN ~(has_data /\ in_range)
       ELSE ~(~has_data \/ ~in_range)

\* one score-range facet: FALSE when the perfume is filtered out by it
ScoreFacetPasses(min10, max10, full10, exclude, score) ==
    IF min10 > 0 \/ max10 < full10 \/ exclude
    THEN LET has_data == score.num > 0
             in_range == InRange(min10, score, max10)
         IN IF exclude THEN ~(has_data /\ in_range)
            ELSE ~(~has_data \/ ~in_range)
    ELSE TRUE

\* any(d.values()): a vote block is truthy when its dict is non-empty, the
\* url / source / last_updated entries when they are non-empty, non-zero
AnyValues(d) ==
    \E k \in DOMAIN d :
        IF k \in {"url", "source"} THEN d[k] # ""
        ELSE IF k = "last_updated" THEN d[k] # 0
        ELSE DOMAIN d[k] # {}

App_matches_filter(p, config) ==
    LET brand_name == get_brand_name(p.brand_id)
        tag_names == TagNames(p)
        ds == derive_state(p, tag_names)
        fr_when == DictGet(p.fragrantica, "season_time_votes")
        my_when == DictGet(p.my_votes, "my_season_time_votes")
        check_items == config.seasons \o config.times
        fr_gender == DictGet(p.fragrantica, "gender_votes")
        my_gender == DictGet(p.my_votes, "my_gender_votes")
        p_tags == SeqSet(tag_names)
        config_tags == SeqSet(config.tags)
    IN /\ ~(config.brands # <<>> /\ ~InList(brand_name, config.brands))
       /\ config.states # <<>> =>
             \/ InList("owned", config.states) /\ ~ds.owned_nan /\ ds.owned_ml > 0
             \/ InList("tested", config.states) /\ HasTestedClause(p, tag_names)
             \/ InList("wishlist", config.states) /\ ds.state = "Wishlist"
       /\ check_items # <<>> =>
             \E i \in 1..Len(check_items) :
                 \/ VoteGet(fr_when, check_items[i]) >= 10
                 \/ VoteGet(my_when, check_items[i]) > 0
       /\ ScoreFacetPasses(config.rating_min, config.rating_max, 50,
                           config.rating_exclude,
                           calculate_rating_score(
                               DictGet(p.fragrantica, "rating_votes"), RATING_5))
       /\ ScoreFacetPasses(config.longevity_min, config.longevity_max, 50,
                           config.longevity_exclude,
                           calculate_longevity_score(
                               DictGet(p.fragrantica, "longevity_votes"), LONGEVITY_5))
       /\ ScoreFacetPasses(config.sillage_min, config.sillage_max, 40,
                           config.sillage_exclude,
                           calculate_sillage_score(
                               DictGet(p.fragrantica, "sillage_votes"), SILLAGE_4))
       /\ ScoreFacetPasses(config.value_min, config.value_max, 50,
                           config.value_exclude,
                           calculate_value_score(
                               DictGet(p.fragrantica, "value_votes"), VALUE_5))
       /\ config.gender_preference # <<>> =>
             \E i \in 1..Len(config.gender_preference) :
                 \/ VoteGet(fr_gender, config.gender_preference[i]) >= 10
                 \/ VoteGet(my_gender, config.gender_preference[i]) > 0
       /\ config.tags # <<>> =>
             IF config.tags_logic = "and" THEN config_tags \subseteq p_tags
             ELSE config_tags \cap p_tags # {}
       /\ config.has_my_vote => AnyValues(p.my_votes)
       /\ config.has_fragrantica => AnyValues(p.fragrantica)

\* one score-range facet of FilterDialog._matches_filter, lines 2806-2853
FilterDialog_ScoreFacet(min10, max10, full10, exclude, score) ==
    IF min10 > 0 \/ max10 < full10 \/ exclude
    THEN LET in_range == InRange(min10, score, max10)
         IN IF exclude THEN ~in_range ELSE in_range
    ELSE TRUE

\* FilterDialog._matches_filter, with the lookups of the app
FilterDialog_matches_filter(p, config) ==
    LET brand_name == get_brand_name(p.brand_id)
        tag_names == TagNames(p)
        ds == derive_state(p, tag_names)
        fr_when == DictGet(p.fragrantica, "season_time_votes")
        my_when == DictGet(p.my_votes, "my_season_time_votes")
        check_items == config.seasons \o config.times
        fr_gender == DictGet(p.fragrantica, "gender_votes")
        my_gender == DictGet(p.my_votes, "my_gender_votes")
        p_tags == SeqSet(tag_names)
        config_tags == SeqSet(config.tags)
    IN /\ ~(config.brands # <<>> /\ ~InList(brand_name, config.brands))
       /\ config.states # <<>> =>
             \/ InList("owned", config.states) /\ ~ds.owned_nan /\ ds.owned_ml > 0
             \/ InList("tested", config.states) /\ HasTestedClause(p, tag_names)
             \/ InList("wishlist", config.states) /\ ds.state = "Wishlist"
       /\ check_items # <<>> =>
             \E i \in 1..Len(check_items) :
                 \/ VoteGet(fr_when, check_items[i]) >= 10
                 \/ VoteGet(my_when, check_items[i]) > 0
       /\ FilterDialog_ScoreFacet(config.rating_min, config.rating_max, 50,
                           config.rating_exclude,
                           calculate_rating_score(
                               DictGet(p.fragrantica, "rating_votes"), RATING_5))
       /\ FilterDialog_ScoreFacet(config.longevity_min, config.longevity_max, 50,
                           config.longevity_exclude,
                           calculate_longevity_score(
                               DictGet(p.fragrantica, "longevity_votes"), LONGEVITY_5))
       /\ FilterDialog_ScoreFacet(config.sillage_min, config.sillage_max, 40,
                           config.sillage_exclude,
                           calculate_sillage_score(
                               DictGet(p.fragrantica, "sillage_votes"), SILLAGE_4))
       /\ FilterDialog_ScoreFacet(config.value_min, config.value_max, 50,
                           config.value_exclude,
                           calculate_value_score(
                               DictGet(p.fragrantica, "value_votes"), VALUE_5))
       /\ config.gender_preference # <<>> =>
             \E i \in 1..Len(config.gender_preference) :
                 \/ VoteGet(fr_gender, config.gender_preference[i]) >= 10
                 \/ VoteGet(my_gender, config.gender_preference[i]) > 0
       /\ config.tags # <<>> =>
             IF config.tags_logic = "and" THEN config_tags \subseteq p_tags
             ELSE config_tags \cap p_tags # {}
       /\ config.has_my_vote => AnyValues(p.my_votes)
       /\ config.has_fragrantica => AnyValues(p.fragrantica)

\* FilterDialog._count_matches
count_matches(plist, hp, config) ==
    Cardinality({i \in 1..Len(plist) : FilterDialog_matches_filter(hp[plist[i]], config)})

\* FilterConfig()
DefaultFilterConfig ==
    [brands |-> <<>>, states |-> <<>>, seasons |-> <<>>, times |-> <<>>,
     rating_min |-> 0, rating_max |-> 50, rating_exclude |-> FALSE,
     longevity_min |-> 0, longevity_max |-> 50, longevity_exclude |-> FALSE,
     sillage_min |-> 0, sillage_max |-> 40, sillage_exclude |-> FALSE,
     value_min |-> 0, value_max |-> 50, value_exclude |-> FALSE,
     gender_preference |-> <<>>, tags |-> <<>>, tags_logic |-> "or",
     has_my_vote |-> FALSE, has_fragrantica |-> FALSE]

(***************************************************************************)
(* The list sort, lines 3634-3699.  A sort value is a tuple of strings,    *)
(* True and numbers; a number is a fraction, as the scores are.            *)
(***************************************************************************)
\* SortConfig()
DefaultSortConfig == [dimensions |-> <<>>]

\* mutant: the score is not negated
NegScore_unchanged(score) == score

\* -score
NegScore(score) == [num |-> 0 - score.num, den |-> score.den]

\* the tuple App._get_sort_value returns
get_sort_value(p, dimension, order) ==
    LET Str(x) == [type |-> "str", v |-> x]
        Num(x) == [type |-> "num", v |-> x]
        Signed(x) == IF order = "desc" THEN <<Num(NegScore(x))>> ELSE <<Num(x)>>
        True == [type |-> "bool", v |-> TRUE]
    IN CASE dimension = "brand" ->
              LET brand_name == Lower(get_brand_name(p.brand_id))
              IN IF order = "asc" THEN <<Str(brand_name)>>
                 ELSE <<Str(brand_name), True>>
         [] dimension = "name" ->
              IF order = "asc" THEN <<Str(Lower(p.name))>>
              ELSE <<Str(Lower(p.name)), True>>
         [] dimension = "rating" ->
              Signed(calculate_rating_score(
                         DictGet(p.fragrantica, "rating_votes"), RATING_5))
         [] dimension = "longevity" ->
              Signed(calculate_longevity_score(
                         DictGet(p.fragrantica, "longevity_votes"), LONGEVITY_5))
         [] dimension = "sillage" ->
              Signed(calculate_sillage_score(
                         DictGet(p.fragrantica, "sillage_votes"), SILLAGE_4))
         [] dimension = "gender" ->
              LET score == calculate_gender_score(
                               DictGet(p.fragrantica, "gender_votes"), GENDER_5)
                  diff == score.num - 3 * score.den
              IN IF order = "female_first" THEN <<Num(score)>>
                 ELSE IF order = "male_first" THEN <<Num(NegScore(score))>>
                 ELSE <<Num([num |-> IF diff < 0 THEN 0 - diff ELSE diff,
                             den |-> score.den])>>
         [] dimension = "value" ->
              Signed(calculate_value_score(
                         DictGet(p.fragrantica, "value_votes"), VALUE_5))
         [] dimension = "state" ->
              \* state.split(",")[0] is the label: no label holds a comma
              LET state == derive_state(p, TagNames(p)).state
                  priority == CASE state = "Owned" -> 0
                                [] state = "Tested" -> 1
                                [] state = "Wishlist" -> 2
                                [] OTHER -> 3
              IN <<Num([num |-> priority, den |-> 1])>>
         [] OTHER -> <<Num([num |-> 0, den |-> 1])>>

\* comparison of two elements of a tuple: -1, 0 or 1
AtomCmp(a, b) ==
    CASE a.type = "str" ->
            IF a.v = b.v THEN 0 ELSE IF StrLess(a.v, b.v) THEN 0 - 1 ELSE 1
      [] a.type = "bool" ->
            IF a.v = b.v THEN 0 ELSE IF b.v THEN 0 - 1 ELSE 1
      [] a.type = "num" ->
            IF ScoreEq(a.v, b.v) THEN 0 ELSE IF ScoreLt(a.v, b.v) THEN 0 - 1 ELSE 1

\* comparison of two sort values: by the first position where they differ,
\* a proper prefix first
TupleCmp(a, b) ==
    LET m == IF Len(a) < Len(b) THEN Len(a) ELSE Len(b)
        differ == {i \in 1..m : AtomCmp(a[i], b[i]) # 0}
    IN IF differ = {}
       THEN IF Len(a) = Len(b) THEN 0 ELSE IF Len(a) < Len(b) THEN 0 - 1 ELSE 1
       ELSE LET i == CHOOSE i \in differ : \A j \in differ : i <= j
            IN AtomCmp(a[i], b[i])

\* comparison of two sort keys, tuples of sort values of one length
KeyCmp(ka, kb) ==
    LET differ == {i \in 1..Len(ka) : TupleCmp(ka[i], kb[i]) # 0}
    IN IF differ = {} THEN 0
       ELSE LET i == CHOOSE i \in differ : \A j \in differ : i <= j
            IN TupleCmp(ka[i], kb[i])

\* sort_key of App._sort_perfumes: the tuple of the values of the dimensions
sort_key(p, config) ==
    [i \in 1..Len(config.dimensions) |->
        get_sort_value(p, config.dimensions[i][1], config.dimensions[i][2])]

\* mutant: an element goes in front of the elements with an equal key
InsertPoint_before_equal(key, front_keys) ==
    Cardinality({i \in 1..Len(front_keys) :
        KeyCmp(front_keys[i], key) < 0})

\* where sorted() puts an element among the sorted ones before it: behind
\* every element whose key is not greater
InsertPoint(key, front_keys) ==
    Cardinality({i \in 1..Len(front_keys) :
        KeyCmp(key, front_keys[i]) >= 0})

\* App._sort_perfumes on a list of ids: sorted() is stable
RECURSIVE sort_perfumes(_, _, _)
sort_perfumes(ids, hp, config) ==
    IF config.dimensions = <<>> \/ ids = <<>> THEN ids
    ELSE LET n == Len(ids)
             front == sort_perfumes(SubSeq(ids, 1, n - 1), hp, config)
             k == InsertPoint(sort_key(hp[ids[n]], config),
                              [i \in 1..(n - 1) |-> sort_key(hp[front[i]], config)])
         IN SubSeq(front, 1, k) \o <<ids[n]>> \o SubSeq(front, k + 1, n - 1)

\* App._refresh_list with an empty search box: the ids of the perfumes that
\* match the filter, sorted
RefreshList(plist, hp, config, sconfig) ==
    LET matching == SelectSeq(plist, LAMBDA pid : App_matches_filter(hp[pid], config))
    IN sort_perfumes(matching, hp, sconfig)

(***************************************************************************)
(* Records of the data model, lines 151-222.  Of an Event and a Perfume    *)
(* the model keeps the fields the modelled handlers read or write.         *)
(***************************************************************************)
EmptyDict == [k \in {} |-> 0]

Event(id, event_type, ml_delta, purchase_type_id, note) ==
    [id |-> id, event_type |-> event_type, ml_delta |-> ml_delta,
     purchase_type |-> "", purchase_type_id |-> purchase_type_id, note |-> note]

Perfume(id, name, brand_id) ==
    [id |-> id, name |-> name, brand_id |-> brand_id, concentration_id |-> NoId,
     outlet_ids |-> <<>>, tag_ids |-> <<>>, events |-> <<>>,
     fragrantica |-> EmptyDict, my_votes |-> EmptyDict]

AppData(plist, brands, tags, concentrations, outlets, purchase_types) ==
    [perfumes |-> plist, brands_map |-> brands, tags_map |-> tags,
     concentrations_map |-> concentrations, outlets_map |-> outlets,
     purchase_types_map |-> purchase_types]

Entry(id, item) == [id |-> id, item |-> item]

\* no Add/Edit perfume dialog is open
DialogClosed ==
    [open |-> FALSE, is_new |-> FALSE, perfume |-> NoId,
     selected_loc_ids |-> <<>>, selected_tag_names |-> <<>>]

DEFAULT_CONCENTRATIONS == <<"Extrait", "Parfum", "EDP", "EDT", "Cologne">>

DEFAULT_PURCHASE_TYPES == <<"full", "decant", "sample", "gift">>

\* the state after App.__init__ when there is no data file: load_app_data
\* fills the two default tables
NoDataFile ==
    /\ app_data = AppData(<<>>, <<>>, <<>>,
                          [i \in 1..5 |-> Entry(i, DEFAULT_CONCENTRATIONS[i])],
                          <<>>,
                          [i \in 1..4 |-> Entry(5 + i, DEFAULT_PURCHASE_TYPES[i])])
    /\ perfumes = <<>>
    /\ aliased = TRUE
    /\ heap = EmptyDict
    /\ next_id = 10
    /\ filter_config = DefaultFilterConfig
    /\ sort_config = DefaultSortConfig
    /\ filtered_ids = <<>>
    /\ dlg = DialogClosed
    /\ msg = ""

\* no vote block has been rendered
CalcIdle ==
    /\ calc_block = "rating_votes"
    /\ calc_votes = EmptyVotes
    /\ calc_score = NoScore
    /\ calc_summary = ""
    /\ calc_done = FALSE

(***************************************************************************)
(* SpecScore: a vote block is given a tally and rendered.                  *)
(***************************************************************************)
CountsOf(block) == IF block = "season_time_votes" THEN WhenCounts ELSE 0..MaxCount

\* the tallies _save_fragrantica can store for a block, and the absent one
Tallies(block) == {EmptyVotes} \cup [KeySet(BlockKeys(block)) -> CountsOf(block)]

ScoreInit ==
    /\ calc_block \in BlockNames
    /\ calc_votes \in Tallies(calc_block)
    /\ calc_score = NoScore
    /\ calc_summary = ""
    /\ calc_done = FALSE
    /\ NoDataFile

\* CollapsibleVoteBlock._render with the score the filter/sort compute
Render ==
    /\ ~calc_done
    /\ calc_score' = ScoreOf(calc_block, calc_votes)
    /\ calc_summary' = SummaryOf(calc_block, calc_votes)
    /\ calc_done' = TRUE
    /\ UNCHANGED <<calc_block, calc_votes>>
    /\ UNCHANGED app_vars

ScoreNext == Render

SpecScore == ScoreInit /\ [][ScoreNext]_vars

(***************************************************************************)
(* Properties of the scores and summaries (checked under SpecScore).       *)
(***************************************************************************)
\* the blocks that have a score function
ScoredBlocks == BlockNames \ {"season_time_votes"}

\* the rendered block's tally has only zero counts (or is absent)
AllZero == \A k \in KeySet(BlockKeys(calc_block)) : VoteGet(calc_votes, k) = 0

\* position (0-based) of an option in the declared list of the block
PositionOf(block, k) ==
    (CHOOSE i \in 1..Len(BlockKeys(block)) : BlockKeys(block)[i] = k) - 1

\* the weight the policy gives an option: N - i for rating, i + 1 otherwise
PolicyWeight(block, k) ==
    IF block = "rating_votes"
    THEN Len(BlockKeys(block)) - PositionOf(block, k)
    ELSE PositionOf(block, k) + 1

RECURSIVE PolicySum(_, _, _)
PolicySum(block, votes, S) ==
    IF S = {} THEN 0
    ELSE LET k == CHOOSE x \in S : TRUE
         IN VoteGet(votes, k) * PolicyWeight(block, k)
            + PolicySum(block, votes, S \ {k})

RECURSIVE CountSum(_, _)
CountSum(votes, S) ==
    IF S = {} THEN 0
    ELSE LET k == CHOOSE x \in S : TRUE
         IN VoteGet(votes, k) + CountSum(votes, S \ {k})

OneVote(keys, k) == [x \in KeySet(keys) |-> IF x = k THEN 1 ELSE 0]

C5_LongevityEternalIsFive ==
    (calc_done /\ calc_block = "longevity_votes") =>
        /\ calc_votes = OneVote(LONGEVITY_5, "eternal")
               => calc_score.num = 5 * calc_score.den
        /\ calc_votes = OneVote(LONGEVITY_5, "poor")
               => calc_score.num = calc_score.den

\* C6: a tally whose counts are all 0 (an absent or empty tally included)
\* has score 0 in every block that has a score function and the summary
\* "no data" dash in each of the six blocks.
C6_NoDataSentinel ==
    (calc_done /\ AllZero) =>
        /\ calc_summary = "-"
        /\ calc_block \in ScoredBlocks => calc_score.num = 0

C6_Witness ==
    /\ calc_done
    /\ calc_block = "longevity_votes"
    /\ calc_votes = [k \in KeySet(LONGEVITY_5) |-> 0]
    /\ calc_summary = "-"
    /\ calc_score.num = 0

C7Tally ==
    [k \in KeySet(SEASON_TIME_6) |->
        IF k \in {"day", "night"} THEN 50 ELSE 100]

\* C7 as stated: the season/time summary of {spring: 100, summer: 100,
\* fall: 100, winter: 100, day: 50, night: 50} is "year-round | anytime".
C7_YearRoundAnytime ==
    (calc_done /\ calc_block = "season_time_votes" /\ calc_votes = C7Tally)
        => calc_summary = "year-round | anytime"

\* C7 amended: the season/time summary of {spring: 100, summer: 100,
\* fall: 100, winter: 100, day: 50, night: 50} is "year-round" (day and
\* night, at 50, are below the threshold 0.6 * 100 and are not top options).
C7_YearRoundOnly ==
    (calc_done /\ calc_block = "season_time_votes" /\ calc_votes = C7Tally)
        => calc_summary = "year-round"

C7_Witness ==
    calc_done /\ calc_block = "season_time_votes" /\ calc_votes = C7Tally

C8Tally ==
    [k \in KeySet(SEASON_TIME_6) |->
        IF k \in {"spring", "summer", "fall"} THEN 100
        ELSE IF k = "day" THEN 10 ELSE 0]

\* C8 as stated: the season/time summary of {spring: 100, summer: 100,
\* fall: 100, winter: 0, day: 10, night: 0} is "except winter | Day".
C8_ExceptWinterDay ==
    (calc_done /\ calc_block = "season_time_votes" /\ calc_votes = C8Tally)
        => calc_summary = "except winter | Day"

\* C8 amended: the season/time summary of {spring: 100, summer: 100,
\* fall: 100, winter: 0, day: 10, night: 0} is "except winter" (day, at 10,
\* is below the threshold 60 and contributes no time phrase).
C8_ExceptWinterOnly ==
    (calc_done /\ calc_block = "season_time_votes" /\ calc_votes = C8Tally)
        => calc_summary = "except winter"

C8_Witness ==
    calc_done /\ calc_block = "season_time_votes" /\ calc_votes = C8Tally

\* the options of the rendered tally with count >= 0.6 * max(counts)
TopSet ==
    LET m == CHOOSE c \in {VoteGet(calc_votes, k) : k \in KeySet(SEASON_TIME_6)} :
                 \A k \in KeySet(SEASON_TIME_6) : VoteGet(calc_votes, k) <= c
    IN {k \in KeySet(SEASON_TIME_6) : 5 * VoteGet(calc_votes, k) >= 3 * m}

\* the members of S among the options, comma-joined in declared order
RECURSIVE CommaJoined(_, _)
CommaJoined(opts, S) ==
    IF opts = <<>> THEN ""
    ELSE LET rest == CommaJoined(Tail(opts), S)
         IN IF Head(opts) \notin S THEN rest
            ELSE IF rest = "" THEN Head(opts)
            ELSE Head(opts) \o ", " \o rest

ExpectedSeasonPhrase ==
    LET top == TopSet \cap {"spring", "summer", "fall", "winter"}
    IN IF Cardinality(top) = 4 THEN "year-round"
       ELSE IF Cardinality(top) = 3
            THEN "except " \o (CHOOSE s \in {"spring", "summer", "fall", "winter"} :
                                   s \notin top)
       ELSE CommaJoined(<<"spring", "summer", "fall", "winter">>, top)

ExpectedTimePhrase ==
    LET top == TopSet \cap {"day", "night"}
    IN IF Cardinality(top) = 2 THEN "anytime"
       ELSE CommaJoined(<<"day", "night">>, top)

\* C9: with max(counts) > 0 the top options are the options with
\* count >= 0.6 * max(counts); the season phrase is "year-round" for 4 top
\* seasons, "except <missing>" for exactly 3, else the comma-joined top
\* seasons; the time phrase is "anytime" for both times, else the
\* comma-joined top times; the summary joins the non-empty phrases with
\* " | " and is never the "no data" dash.
C9_WhenSummaryAlgorithm ==
    (calc_done /\ calc_block = "season_time_votes" /\ ~AllZero) =>
        /\ calc_summary =
              (IF ExpectedSeasonPhrase = "" THEN ExpectedTimePhrase
               ELSE IF ExpectedTimePhrase = "" THEN ExpectedSeasonPhrase
               ELSE ExpectedSeasonPhrase \o " | " \o ExpectedTimePhrase)
        /\ calc_summary # "-"
        /\ calc_summary # ""

C9_Witness ==
    /\ calc_done
    /\ calc_block = "season_time_votes"
    /\ calc_votes = [k \in KeySet(SEASON_TIME_6) |->
                        IF k \in {"summer", "night"} THEN 100
                        ELSE IF k = "spring" THEN 60 ELSE 50]
    /\ calc_summary = "spring, summer | night"

(***************************************************************************)
(* SpecFilter: the list filter.  The data file holds one perfume; its      *)
(* community tallies are either missing (never saved) or the six blocks    *)
(* _save_fragrantica stores with its metadata, one of the blocks with a    *)
(* score range carrying votes.  The filter dialog applies configurations.  *)
(***************************************************************************)
FilterMaxCount == 1

\* the blocks that have a score-range facet
RangeBlocks == {"rating_votes", "longevity_votes", "sillage_votes", "value_votes"}

\* upper end of the slider of a block, in tenths
FullRange(block) == IF block = "sillage_votes" THEN 40 ELSE 50

\* what _save_fragrantica leaves in p.fragrantica: every block of the form,
\* no url, the two metadata entries
SavedFragrantica(focus, tally) ==
    [k \in BlockNames \cup {"source", "last_updated"} |->
        IF k = "source" THEN "fragrantica"
        ELSE IF k = "last_updated" THEN 1
        ELSE IF k = focus THEN tally
        ELSE [x \in KeySet(BlockKeys(k)) |-> 0]]

FilterTallies(block) == [KeySet(BlockKeys(block)) -> 0..FilterMaxCount]

FilterFragranticas ==
    {EmptyDict} \cup
    UNION { {SavedFragrantica(b, t) : t \in FilterTallies(b)} : b \in RangeBlocks }

FilterInit ==
    /\ CalcIdle
    /\ app_data = AppData(<<4>>, <<Entry(1, "Chanel")>>, <<>>,
                          <<Entry(2, "EDP")>>, <<>>, <<Entry(3, "full")>>)
    /\ perfumes = <<4>>
    /\ aliased = TRUE
    /\ \E fr \in FilterFragranticas :
           heap = (4 :> [Perfume(4, "No5", 1) EXCEPT !.fragrantica = fr])
    /\ next_id = 5
    /\ filter_config = DefaultFilterConfig
    /\ sort_config = DefaultSortConfig
    /\ filtered_ids = <<4>>
    /\ dlg = DialogClosed
    /\ msg = ""

\* the range, in tenths, and the mode of the facet of a block
FacetMin(config, block) ==
    CASE block = "rating_votes" -> config.rating_min
      [] block = "longevity_votes" -> config.longevity_min
      [] block = "sillage_votes" -> config.sillage_min
      [] block = "value_votes" -> config.value_min

FacetMax(config, block) ==
    CASE block = "rating_votes" -> config.rating_max
      [] block = "longevity_votes" -> config.longevity_max
      [] block = "sillage_votes" -> config.sillage_max
      [] block = "value_votes" -> config.value_max

FacetExclude(config, block) ==
    CASE block = "rating_votes" -> config.rating_exclude
      [] block = "longevity_votes" -> config.longevity_exclude
      [] block = "sillage_votes" -> config.sillage_exclude
      [] block = "value_votes" -> config.value_exclude

\* the configuration with the slider and the checkbox of one block set
SetFacet(config, block, lo, hi, exclude) ==
    CASE block = "rating_votes" ->
            [config EXCEPT !.rating_min = lo, !.rating_max = hi,
                           !.rating_exclude = exclude]
      [] block = "longevity_votes" ->
            [config EXCEPT !.longevity_min = lo, !.longevity_max = hi,
                           !.longevity_exclude = exclude]
      [] block = "sillage_votes" ->
            [config EXCEPT !.sillage_min = lo, !.sillage_max = hi,
                           !.sillage_exclude = exclude]
      [] block = "value_votes" ->
            [config EXCEPT !.value_min = lo, !.value_max = hi,
                           !.value_exclude = exclude]

\* slider positions the dialog can hold: tenths, at least 0.3 apart
SliderRanges(block) ==
    { <<0, FullRange(block)>>, <<0, 20>>, <<10, FullRange(block)>>,
      <<30, FullRange(block)>>, <<20, 30>> }

\* configurations built by FilterDialog._build_config: one score facet set,
\* with or without the "has Fragrantica data" box
FilterConfigs ==
    UNION { { [SetFacet(DefaultFilterConfig, b, r[1], r[2], ex)
                  EXCEPT !.has_fragrantica = hf] :
                r \in SliderRanges(b), ex \in BOOLEAN, hf \in BOOLEAN } :
            b \in RangeBlocks }

\* ui_open_filter.on_apply, lines 3396-3399
ApplyFilter(config) ==
    /\ filter_config' = config
    /\ filtered_ids' = RefreshList(perfumes, heap, config, sort_config)
    /\ UNCHANGED <<app_data, perfumes, aliased, heap, next_id, sort_config,
                   dlg, msg>>
    /\ UNCHANGED calc_vars

FilterNext == \E config \in FilterConfigs : ApplyFilter(config)

SpecFilter == FilterInit /\ [][FilterNext]_vars

(***************************************************************************)
(* Score-range facets of the list filter                                   *)
(***************************************************************************)
\* the facet of the block is active: its range is narrower than the slider
\* or its exclude box is ticked
FacetActive(config, block) ==
    \/ FacetMin(config, block) > 0
    \/ FacetMax(config, block) < FullRange(block)
    \/ FacetExclude(config, block)

\* the score of the perfume for the block, and whether it lies outside the
\* range of the facet (bounds in tenths)
FacetScore(p, block) == ScoreOf(block, DictGet(p.fragrantica, block))

OutsideFacet(config, block, score) ==
    \/ 10 * score.num < FacetMin(config, block) * score.den
    \/ 10 * score.num > FacetMax(config, block) * score.den

\* the configuration with the facet of the block switched off
WithoutFacet(config, block) == SetFacet(config, block, 0, FullRange(block), FALSE)

\* C10: for every perfume of the list and every score-range facet that is
\* active: in include mode a perfume whose score is 0 (no data) is not in
\* the filtered list, whatever the bounds; in exclude mode the perfume is in
\* the filtered list exactly when it passes the facet - it has no data, or
\* its score is outside [min, max] - and matches the rest of the
\* configuration.
C10_ScoreRangeFacets ==
    \A i \in 1..Len(perfumes) : \A b \in RangeBlocks :
        LET p == heap[perfumes[i]]
            shown == InList(p.id, filtered_ids)
            score == FacetScore(p, b)
            no_data == score.num = 0
        IN FacetActive(filter_config, b) =>
              /\ (~FacetExclude(filter_config, b) /\ no_data) => ~shown
              /\ FacetExclude(filter_config, b) =>
                    (shown <=> /\ no_data \/ OutsideFacet(filter_config, b, score)
                               /\ App_matches_filter(p, WithoutFacet(filter_config, b)))

\* a rating range [3.0, 5.0] in exclude mode lists a perfume whose saved
\* rating tally is all zero
C10_Witness ==
    /\ filter_config.rating_min = 30
    /\ filter_config.rating_max = 50
    /\ filter_config.rating_exclude
    /\ ~filter_config.has_fragrantica
    /\ "rating_votes" \in DOMAIN heap[4].fragrantica
    /\ FacetScore(heap[4], "rating_votes").num = 0
    /\ filtered_ids = <<4>>

(***************************************************************************)
(* Spec: the reference tables, the perfumes and the handlers that change   *)
(* them.  The handlers run one at a time, and a session of the Add/Edit    *)
(* dialog - from its opening to Create, Apply or Cancel - is not           *)
(* interleaved with other handlers.  The tab and the sort mode of the      *)
(* Manage Data dialog are taken as inputs of its handlers: _switch_tab     *)
(* and the Custom radio button change nothing but these two fields, so     *)
(* every handler can be reached with every value of them.  The dialog's    *)
(* item_ids is the key order of the table, which _refresh_list restores    *)
(* at the end of every handler.                                            *)
(***************************************************************************)
MaxIds == 6

\* text the user can type into the prompt of a tab; "" also stands for a
\* cancelled prompt
TabInputs(tab) ==
    CASE tab = "brands" -> {"", "Chanel", "Dior", " Chanel "}
      [] tab = "tags" -> {"", "want", "Summer", " want "}
      [] tab = "outlets" -> {"", "Sephora", "Macys", " Sephora "}
      [] tab = "concentrations" -> {"", "EDP", "EDT", " EDP "}
      [] tab = "purchase_types" -> {"", "full", "decant", " full "}

RegionInputs == {"", "NYC"}

NameInputs == {"", "No5", " No5 "}

\* new names typed into the Rename and Merge prompts
RenameInputs(tab) ==
    CASE tab = "brands" -> {"", "Chanel", " Chanel "}
      [] tab = "tags" -> {"", "want", " want "}
      [] tab = "outlets" -> {"", "Sephora", " Sephora "}
      [] tab = "concentrations" -> {"", "EDP", " EDP "}
      [] tab = "purchase_types" -> {"", "full", " full "}

\* ManageDataDialog._get_item_name for an item of the tab
ItemName(tab, item) == IF tab = "outlets" THEN OutletDisplay(item) ELSE item

\* a usage count that does not look at the events
CountUsage_without_events(tab, item_id, plist, hp) ==
    CASE tab = "brands" ->
            Cardinality({i \in 1..Len(plist) : hp[plist[i]].brand_id = item_id})
      [] tab = "tags" ->
            Cardinality({i \in 1..Len(plist) : InList(item_id, hp[plist[i]].tag_ids)})
      [] tab = "concentrations" ->
            Cardinality({i \in 1..Len(plist) :
                            hp[plist[i]].concentration_id = item_id})
      [] tab = "outlets" ->
            Cardinality({i \in 1..Len(plist) :
                            InList(item_id, hp[plist[i]].outlet_ids)})
      [] tab = "purchase_types" -> 0

\* ManageDataDialog._count_usage over the perfumes of the list plist
CountUsage(tab, item_id, plist, hp) ==
    CASE tab = "brands" ->
            Cardinality({i \in 1..Len(plist) : hp[plist[i]].brand_id = item_id})
      [] tab = "tags" ->
            Cardinality({i \in 1..Len(plist) : InList(item_id, hp[plist[i]].tag_ids)})
      [] tab = "concentrations" ->
            Cardinality({i \in 1..Len(plist) :
                            hp[plist[i]].concentration_id = item_id})
      [] tab = "outlets" ->
            Cardinality({i \in 1..Len(plist) :
                            InList(item_id, hp[plist[i]].outlet_ids)})
      [] tab = "purchase_types" ->
            Cardinality(UNION {
                { <<i, j>> : j \in {j \in 1..Len(hp[plist[i]].events) :
                      hp[plist[i]].events[j].purchase_type_id = item_id} } :
                i \in 1..Len(plist) })

\* the sort key of an entry is smaller than that of another
KeyLess(tab, mode, a, b, plist, hp) ==
    LET name_a == Lower(ItemName(tab, a.item))
        name_b == Lower(ItemName(tab, b.item))
        count_a == CountUsage(tab, a.id, plist, hp)
        count_b == CountUsage(tab, b.id, plist, hp)
    IN IF mode = "name" THEN StrLess(name_a, name_b)
       ELSE \/ count_a > count_b
            \/ count_a = count_b /\ StrLess(name_a, name_b)

\* list.sort(key=...): stable, so an entry goes before the first entry with
\* a greater key
RECURSIVE SortItems(_, _, _, _, _)
SortItems(tab, mode, items, plist, hp) ==
    IF items = <<>> THEN <<>>
    ELSE LET init == SortItems(tab, mode, SubSeq(items, 1, Len(items) - 1), plist, hp)
             x == items[Len(items)]
             before == {i \in 1..Len(init) : KeyLess(tab, mode, x, init[i], plist, hp)}
             at == IF before = {} THEN Len(init) + 1
                   ELSE CHOOSE i \in before : \A j \in before : i <= j
         IN SubSeq(init, 1, at - 1) \o <<x>> \o SubSeq(init, at, Len(init))

\* the ids selected in the list box, in list order
RECURSIVE SelectedIds(_, _, _)
SelectedIds(map, sel, i) ==
    IF i > Len(map) THEN <<>>
    ELSE (IF i \in sel THEN <<map[i].id>> ELSE <<>>) \o SelectedIds(map, sel, i + 1)

\* the handlers that do not touch the vote widget, the filter or the dialog
AppFrame == UNCHANGED <<calc_block, calc_votes, calc_score, calc_summary,
                        calc_done, filter_config, sort_config, dlg>>

\* ManageDataDialog._on_sort_change with the Name or the Count button
OnSortChange(tab, mode) ==
    /\ ~dlg.open
    /\ app_data' = WithMap(app_data, tab,
                           SortItems(tab, mode, CurrentMap(tab), perfumes, heap))
    /\ msg' = ""
    /\ UNCHANGED <<perfumes, aliased, heap, next_id, filtered_ids>>
    /\ AppFrame

\* ManageDataDialog._move_up; idx is the first selected row, from 1
MoveUp(tab, idx) ==
    /\ ~dlg.open
    /\ idx \in 2..Len(CurrentMap(tab))
    /\ app_data' = WithMap(app_data, tab, Swap(CurrentMap(tab), idx, idx - 1))
    /\ msg' = ""
    /\ UNCHANGED <<perfumes, aliased, heap, next_id, filtered_ids>>
    /\ AppFrame

\* ManageDataDialog._move_down
MoveDown(tab, idx) ==
    /\ ~dlg.open
    /\ idx \in 1..(Len(CurrentMap(tab)) - 1)
    /\ app_data' = WithMap(app_data, tab, Swap(CurrentMap(tab), idx, idx + 1))
    /\ msg' = ""
    /\ UNCHANGED <<perfumes, aliased, heap, next_id, filtered_ids>>
    /\ AppFrame

\* ManageDataDialog._rename_selected; sel is the set of selected rows
RenameSelected(tab, sel, new_name, new_region) ==
    /\ ~dlg.open
    /\ sel \subseteq 1..Len(CurrentMap(tab))
    /\ UNCHANGED <<perfumes, aliased, heap, next_id>>
    /\ AppFrame
    /\ IF Cardinality(sel) # 1
       THEN /\ msg' = "Select One"
            /\ UNCHANGED <<app_data, filtered_ids>>
       ELSE LET idx == CHOOSE i \in sel : TRUE
                item_id == CurrentMap(tab)[idx].id
                old == CurrentMap(tab)[idx].item
            IN IF tab = "outlets"
               THEN IF new_name = ""
                    THEN /\ msg' = ""
                         /\ UNCHANGED <<app_data, filtered_ids>>
                    ELSE /\ app_data' = WithMap(app_data, tab,
                                 MapSet(CurrentMap(tab), item_id,
                                        OutletInfo(Strip(new_name), Strip(new_region))))
                         /\ filtered_ids' = RefreshList(perfumes, heap, filter_config, sort_config)'
                         /\ msg' = "Renamed"
               ELSE IF new_name = "" \/ Strip(new_name) = old
                    THEN /\ msg' = ""
                         /\ UNCHANGED <<app_data, filtered_ids>>
                    ELSE /\ app_data' = WithMap(app_data, tab,
                                 MapSet(CurrentMap(tab), item_id, Strip(new_name)))
                         /\ filtered_ids' = RefreshList(perfumes, heap, filter_config, sort_config)'
                         /\ msg' = "Renamed"

\* [target_id if x == sid else x for x in ids]
ReplaceId(ids, sid, target_id) ==
    [i \in 1..Len(ids) |-> IF ids[i] = sid THEN target_id ELSE ids[i]]

\* the perfume left as it is, its references not rewritten
MergePerfume_unchanged(tab, p, sid, target_id) == p

\* one perfume after the merge loop has handled sid, lines 2028-2050
MergePerfume(tab, p, sid, target_id) ==
    CASE tab = "brands" ->
            IF p.brand_id = sid THEN [p EXCEPT !.brand_id = target_id] ELSE p
      [] tab = "tags" ->
            IF InList(sid, p.tag_ids)
            THEN [p EXCEPT !.tag_ids = DictFromKeys(ReplaceId(p.tag_ids, sid, target_id))]
            ELSE p
      [] tab = "concentrations" ->
            IF p.concentration_id = sid
            THEN [p EXCEPT !.concentration_id = target_id] ELSE p
      [] tab = "outlets" ->
            IF InList(sid, p.outlet_ids)
            THEN [p EXCEPT !.outlet_ids =
                                DictFromKeys(ReplaceId(p.outlet_ids, sid, target_id))]
            ELSE p
      [] tab = "purchase_types" ->
            [p EXCEPT !.events =
                [j \in 1..Len(p.events) |->
                    IF p.events[j].purchase_type_id = sid
                    THEN [p.events[j] EXCEPT !.purchase_type_id = target_id]
                    ELSE p.events[j]]]

\* the loop over selected_ids, lines 2024-2052: the table and the perfume
\* objects after it; only the perfumes of App.perfumes are visited
RECURSIVE MergeLoop(_, _, _, _, _, _)
MergeLoop(tab, map, hp, plist, selected_ids, target_id) ==
    IF selected_ids = <<>> THEN [map |-> map, heap |-> hp]
    ELSE LET sid == Head(selected_ids)
         IN IF sid = target_id
            THEN MergeLoop(tab, map, hp, plist, Tail(selected_ids), target_id)
            ELSE MergeLoop(tab, MapDel(map, sid),
                           [pid \in DOMAIN hp |->
                               IF InList(pid, plist)
                               THEN MergePerfume(tab, hp[pid], sid, target_id)
                               ELSE hp[pid]],
                           plist, Tail(selected_ids), target_id)

\* ManageDataDialog._merge_selected; keep_name is the answer to the prompt
\* mutant: a merge is refused only when nothing is selected
TooFewToMerge_empty(sel) == sel = {}

\* len(selection) < 2, line 1999
TooFewToMerge(sel) == Cardinality(sel) < 2

MergeRows(tab, sel, keep_name) ==
    /\ sel \subseteq 1..Len(CurrentMap(tab))
    /\ UNCHANGED <<perfumes, aliased, next_id>>
    /\ AppFrame
    /\ IF TooFewToMerge(sel)
       THEN /\ msg' = "Select Multiple"
            /\ UNCHANGED <<app_data, heap, filtered_ids>>
       ELSE IF keep_name = ""
       THEN /\ msg' = ""
            /\ UNCHANGED <<app_data, heap, filtered_ids>>
       ELSE LET selected_ids == SelectedIds(CurrentMap(tab), sel, 1)
                target_id == selected_ids[1]
                kept == IF tab = "outlets" THEN OutletInfo(Strip(keep_name), "")
                        ELSE Strip(keep_name)
                done == MergeLoop(tab, MapSet(CurrentMap(tab), target_id, kept),
                                  heap, perfumes, selected_ids, target_id)
            IN /\ msg' = "Merged"
               /\ app_data' = WithMap(app_data, tab, done.map)
               /\ heap' = done.heap
               /\ filtered_ids' = RefreshList(perfumes, heap, filter_config, sort_config)'

\* a merge while no Add/Edit dialog is open
MergeSelected(tab, sel, keep_name) ==
    /\ ~dlg.open
    /\ MergeRows(tab, sel, keep_name)

\* del current_map[sid] for every selected id whose usage is 0
RECURSIVE DeleteUnused(_, _, _, _, _)
DeleteUnused(tab, map, selected_ids, plist, hp) ==
    IF selected_ids = <<>> THEN map
    ELSE DeleteUnused(tab,
                      IF CountUsage(tab, Head(selected_ids), plist, hp) = 0
                      THEN MapDel(map, Head(selected_ids)) ELSE map,
                      Tail(selected_ids), plist, hp)

\* ManageDataDialog._delete_selected; confirm is the answer to askyesno
DeleteRows(tab, sel, confirm) ==
    /\ sel \subseteq 1..Len(CurrentMap(tab))
    /\ UNCHANGED <<perfumes, aliased, heap, next_id, filtered_ids>>
    /\ AppFrame
    /\ LET selected_ids == SelectedIds(CurrentMap(tab), sel, 1)
           used_items == SelectSeq(selected_ids,
                             LAMBDA sid : CountUsage(tab, sid, perfumes, heap) > 0)
       IN IF sel = {}
          THEN /\ msg' = "Select"
               /\ UNCHANGED app_data
          ELSE IF used_items # <<>>
          THEN /\ msg' = "Cannot Delete"
               /\ UNCHANGED app_data
          ELSE /\ msg' = "Confirm Delete"
               /\ IF confirm
                  THEN app_data' = WithMap(app_data, tab,
                           DeleteUnused(tab, CurrentMap(tab), selected_ids,
                                        perfumes, heap))
                  ELSE UNCHANGED app_data

\* a delete while no Add/Edit dialog is open
DeleteSelected(tab, sel, confirm) ==
    /\ ~dlg.open
    /\ DeleteRows(tab, sel, confirm)

\* ManageDataDialog._add_new
AddNew(tab, name, region) ==
    /\ ~dlg.open
    /\ UNCHANGED <<perfumes, aliased, heap, filtered_ids>>
    /\ AppFrame
    /\ IF name = ""
       THEN /\ msg' = ""
            /\ UNCHANGED <<app_data, next_id>>
       ELSE IF tab = "outlets"
       THEN /\ next_id <= MaxIds
            /\ app_data' = WithMap(app_data, tab,
                   MapSet(CurrentMap(tab), next_id,
                          OutletInfo(Strip(name), Strip(region))))
            /\ next_id' = next_id + 1
            /\ msg' = ""
       ELSE IF \E i \in 1..Len(CurrentMap(tab)) : CurrentMap(tab)[i].item = Strip(name)
       THEN /\ msg' = "Exists"
            /\ UNCHANGED <<app_data, next_id>>
       ELSE /\ next_id <= MaxIds
            /\ app_data' = WithMap(app_data, tab,
                   MapSet(CurrentMap(tab), next_id, Strip(name)))
            /\ next_id' = next_id + 1
            /\ msg' = ""

(***************************************************************************)
(* The Add/Edit perfume dialog, lines 4100-4340.                           *)
(***************************************************************************)
\* the handlers of the open dialog that only edit its pending lists
DialogFrame == UNCHANGED <<calc_block, calc_votes, calc_score, calc_summary,
                           calc_done, filter_config, sort_config, perfumes,
                           aliased, heap,
                           filtered_ids>>

\* App.ui_add_perfume
ui_add_perfume ==
    /\ ~dlg.open
    /\ dlg' = [open |-> TRUE, is_new |-> TRUE, perfume |-> NoId,
               selected_loc_ids |-> <<>>, selected_tag_names |-> <<>>]
    /\ msg' = ""
    /\ UNCHANGED <<app_data, next_id>>
    /\ DialogFrame

\* App.ui_edit_info; selected is the selected row of the list, NoId if none
ui_edit_info(selected) ==
    /\ ~dlg.open
    /\ selected \in SeqSet(filtered_ids) \cup {NoId}
    /\ IF selected = NoId
       THEN /\ msg' = "Select"
            /\ UNCHANGED dlg
       ELSE /\ dlg' = [open |-> TRUE, is_new |-> FALSE, perfume |-> selected,
                       selected_loc_ids |-> heap[selected].outlet_ids,
                       selected_tag_names |-> TagNames(heap[selected])]
            /\ msg' = ""
    /\ UNCHANGED <<app_data, next_id>>
    /\ DialogFrame

\* add_location, with App.find_or_create_outlet
add_location(loc_input) ==
    /\ dlg.open
    /\ LET loc_name == Strip(loc_input)
           r == find_or_create_outlet(app_data.outlets_map, next_id, loc_name)
       IN IF loc_name = ""
          THEN UNCHANGED <<app_data, next_id, dlg>>
          ELSE /\ r.next > next_id => next_id <= MaxIds
               /\ app_data' = [app_data EXCEPT !.outlets_map = r.map]
               /\ next_id' = r.next
               /\ dlg' = IF r.id = NoId \/ InList(r.id, dlg.selected_loc_ids) THEN dlg
                         ELSE [dlg EXCEPT !.selected_loc_ids = Append(@, r.id)]
    /\ msg' = ""
    /\ DialogFrame

\* delete_location; idx is the selected row, from 1
delete_location(idx) ==
    /\ dlg.open
    /\ idx \in 1..Len(dlg.selected_loc_ids)
    /\ dlg' = [dlg EXCEPT !.selected_loc_ids = RemoveAt(@, idx)]
    /\ msg' = ""
    /\ UNCHANGED <<app_data, next_id>>
    /\ DialogFrame

move_loc_up(idx) ==
    /\ dlg.open
    /\ idx \in 2..Len(dlg.selected_loc_ids)
    /\ dlg' = [dlg EXCEPT !.selected_loc_ids = Swap(@, idx, idx - 1)]
    /\ msg' = ""
    /\ UNCHANGED <<app_data, next_id>>
    /\ DialogFrame

move_loc_down(idx) ==
    /\ dlg.open
    /\ idx \in 1..(Len(dlg.selected_loc_ids) - 1)
    /\ dlg' = [dlg EXCEPT !.selected_loc_ids = Swap(@, idx, idx + 1)]
    /\ msg' = ""
    /\ UNCHANGED <<app_data, next_id>>
    /\ DialogFrame

add_tag(tag_input) ==
    /\ dlg.open
    /\ LET tag_name == Strip(tag_input)
       IN dlg' = IF tag_name = "" \/ InList(tag_name, dlg.selected_tag_names) THEN dlg
                 ELSE [dlg EXCEPT !.selected_tag_names = Append(@, tag_name)]
    /\ msg' = ""
    /\ UNCHANGED <<app_data, next_id>>
    /\ DialogFrame

delete_tag(idx) ==
    /\ dlg.open
    /\ idx \in 1..Len(dlg.selected_tag_names)
    /\ dlg' = [dlg EXCEPT !.selected_tag_names = RemoveAt(@, idx)]
    /\ msg' = ""
    /\ UNCHANGED <<app_data, next_id>>
    /\ DialogFrame

move_tag_up(idx) ==
    /\ dlg.open
    /\ idx \in 2..Len(dlg.selected_tag_names)
    /\ dlg' = [dlg EXCEPT !.selected_tag_names = Swap(@, idx, idx - 1)]
    /\ msg' = ""
    /\ UNCHANGED <<app_data, next_id>>
    /\ DialogFrame

move_tag_down(idx) ==
    /\ dlg.open
    /\ idx \in 1..(Len(dlg.selected_tag_names) - 1)
    /\ dlg' = [dlg EXCEPT !.selected_tag_names = Swap(@, idx, idx + 1)]
    /\ msg' = ""
    /\ UNCHANGED <<app_data, next_id>>
    /\ DialogFrame

\* the Cancel button
cancel_dialog ==
    /\ dlg.open
    /\ dlg' = DialogClosed
    /\ msg' = ""
    /\ UNCHANGED <<app_data, next_id>>
    /\ DialogFrame

\* [find_or_create_tag_id(name) for name in selected_tag_names]: the tags
\* table, the ids and the next unused id after it
RECURSIVE FindOrCreateTags(_, _, _)
FindOrCreateTags(tags, names, next) ==
    IF names = <<>> THEN [map |-> tags, ids |-> <<>>, next |-> next]
    ELSE LET r == find_or_create_tag_id(tags, next, Head(names))
             rest == FindOrCreateTags(r.map, Tail(names), r.next)
         IN [map |-> rest.map, ids |-> <<r.id>> \o rest.ids, next |-> rest.next]

\* apply_changes, lines 4295-4334
apply_changes(brand_input, name_input, conc_name) ==
    /\ dlg.open
    /\ conc_name \in {""} \cup {app_data.concentrations_map[i].item :
                                  i \in 1..Len(app_data.concentrations_map)}
    /\ UNCHANGED <<calc_block, calc_votes, calc_score, calc_summary, calc_done,
                   filter_config, sort_config, aliased>>
    /\ LET brand == Strip(brand_input)
           name == Strip(name_input)
           r == find_or_create_brand_id(app_data.brands_map, next_id, brand)
           brand_id == r.id
           brands == r.map
           next1 == r.next
           pid == IF dlg.is_new THEN next1 ELSE dlg.perfume
           next2 == IF dlg.is_new THEN next1 + 1 ELSE next1
           p0 == IF dlg.is_new THEN Perfume(pid, name, brand_id)
                 ELSE [heap[pid] EXCEPT !.brand_id = brand_id, !.name = name]
           conc_id == IF conc_name = "" THEN NoId
                      ELSE IF FindByName(app_data.concentrations_map, conc_name) # NoId
                      THEN FindByName(app_data.concentrations_map, conc_name)
                      ELSE p0.concentration_id
           tags == FindOrCreateTags(app_data.tags_map, dlg.selected_tag_names, next2)
           p == [p0 EXCEPT !.concentration_id = conc_id,
                           !.outlet_ids = dlg.selected_loc_ids,
                           !.tag_ids = tags.ids]
       IN IF brand = "" \/ name = ""
          THEN /\ msg' = "Missing"
               /\ UNCHANGED <<app_data, perfumes, heap, next_id, filtered_ids, dlg>>
          ELSE /\ tags.next > next_id => tags.next <= MaxIds + 1
               /\ app_data' = [app_data EXCEPT
                      !.brands_map = brands,
                      !.tags_map = tags.map,
                      !.perfumes = IF dlg.is_new /\ aliased THEN Append(@, pid) ELSE @]
               /\ perfumes' = IF dlg.is_new THEN Append(perfumes, pid) ELSE perfumes
               /\ heap' = (pid :> p) @@ heap
               /\ next_id' = tags.next
               /\ filtered_ids' = RefreshList(perfumes, heap, filter_config, sort_config)'
               /\ dlg' = DialogClosed
               /\ msg' = ""

\* App.ui_delete_perfume; selected is the selected row, confirm the answer
\* to askyesno.  The new list object is no longer app_data.perfumes.
ui_delete_perfume(selected, confirm) ==
    /\ ~dlg.open
    /\ selected \in SeqSet(filtered_ids)
    /\ msg' = "Delete"
    /\ UNCHANGED <<app_data, next_id>>
    /\ AppFrame
    /\ IF confirm
       THEN /\ perfumes' = SelectSeq(perfumes, LAMBDA x : x # selected)
            /\ aliased' = FALSE
            /\ heap' = [pid \in SeqSet(perfumes') \cup SeqSet(app_data.perfumes)
                           |-> heap[pid]]
            /\ filtered_ids' = RefreshList(perfumes, heap, filter_config, sort_config)'
       ELSE UNCHANGED <<perfumes, aliased, heap, filtered_ids>>

(***************************************************************************)
(* The state after App.__init__ on a data file with one perfume.  The      *)
(* files differ in what the perfume refers to: nothing but its brand and   *)
(* concentration; also the purchase type, by the id in its buy event (the  *)
(* program writes no purchase_type_id itself, load_app_data keeps the one  *)
(* of the file); two tags; two outlets.  The ids of the two larger files   *)
(* reach beyond MaxIds, so a session on them creates no entry.             *)
(***************************************************************************)
DataFiles == {"plain", "purchase_type", "tags", "outlets"}

FileTags(file) ==
    IF file = "tags" THEN <<Entry(6, "want"), Entry(7, "Summer")>> ELSE <<>>

FileOutlets(file) ==
    IF file = "outlets"
    THEN <<Entry(6, OutletInfo("Sephora", "")), Entry(7, OutletInfo("Macys", "NYC"))>>
    ELSE <<>>

FilePerfume(file) ==
    [Perfume(4, "No5", 1) EXCEPT
        !.concentration_id = 2,
        !.tag_ids = IF file = "tags" THEN <<7, 6>> ELSE <<>>,
        !.outlet_ids = IF file = "outlets" THEN <<7, 6>> ELSE <<>>,
        !.events = <<Event(5, "buy", <<50>>,
                           IF file = "purchase_type" THEN 3 ELSE NoId, "")>>]

FileNextId(file) == IF file \in {"tags", "outlets"} THEN 8 ELSE 6

Init ==
    /\ CalcIdle
    /\ \E file \in DataFiles :
          /\ app_data = AppData(<<4>>, <<Entry(1, "Chanel")>>, FileTags(file),
                                <<Entry(2, "EDP")>>, FileOutlets(file),
                                <<Entry(3, "full")>>)
          /\ heap = (4 :> FilePerfume(file))
          /\ next_id = FileNextId(file)
    /\ perfumes = <<4>>
    /\ aliased = TRUE
    /\ filter_config = DefaultFilterConfig
    /\ sort_config = DefaultSortConfig
    /\ filtered_ids = <<4>>
    /\ dlg = DialogClosed
    /\ msg = ""

SortModes == {"name", "count"}

Rows == 1..MaxIds

Next ==
    \/ \E tab \in Tabs, mode \in SortModes : OnSortChange(tab, mode)
    \/ \E tab \in Tabs, idx \in Rows : MoveUp(tab, idx)
    \/ \E tab \in Tabs, idx \in Rows : MoveDown(tab, idx)
    \/ \E tab \in Tabs : \E sel \in SUBSET (1..Len(CurrentMap(tab))) :
           \E new_name \in RenameInputs(tab), new_region \in RegionInputs :
               RenameSelected(tab, sel, new_name, new_region)
    \/ \E tab \in Tabs : \E sel \in SUBSET (1..Len(CurrentMap(tab))) :
           \E keep_name \in RenameInputs(tab) : MergeSelected(tab, sel, keep_name)
    \/ \E tab \in Tabs : \E sel \in SUBSET (1..Len(CurrentMap(tab))) :
           \E confirm \in BOOLEAN : DeleteSelected(tab, sel, confirm)
    \/ \E tab \in Tabs : \E name \in TabInputs(tab), region \in RegionInputs :
           AddNew(tab, name, region)
    \/ ui_add_perfume
    \/ \E selected \in SeqSet(filtered_ids) \cup {NoId} : ui_edit_info(selected)
    \/ \E loc_input \in TabInputs("outlets") : add_location(loc_input)
    \/ \E idx \in Rows : delete_location(idx)
    \/ \E idx \in Rows : move_loc_up(idx)
    \/ \E idx \in Rows : move_loc_down(idx)
    \/ \E tag_input \in TabInputs("tags") : add_tag(tag_input)
    \/ \E idx \in Rows : delete_tag(idx)
    \/ \E idx \in Rows : move_tag_up(idx)
    \/ \E idx \in Rows : move_tag_down(idx)
    \/ cancel_dialog
    \/ \E brand_input \in TabInputs("brands"), name_input \in NameInputs :
           \E conc_name \in TabInputs("concentrations") :
               apply_changes(brand_input, name_input, conc_name)
    \/ \E selected \in SeqSet(filtered_ids), confirm \in BOOLEAN :
           ui_delete_perfume(selected, confirm)

Spec == Init /\ [][Next]_vars

(***************************************************************************)
(* SpecManage: the Manage Data dialog at work on a larger data file: two   *)
(* perfumes, and one table - the table of the file - with all its entries  *)
(* and the references to them.  Only the handlers of the dialog that       *)
(* reorder, rename, merge and delete run.                                  *)
(***************************************************************************)
ManageBrands(file) ==
    IF file = "brands" THEN <<Entry(1, "Chanel"), Entry(2, "Dior")>>
    ELSE <<Entry(1, "Chanel")>>

ManageTags(file) ==
    IF file = "tags" THEN <<Entry(3, "want"), Entry(4, "Summer"), Entry(5, "gift")>>
    ELSE <<>>

ManageOutlets(file) ==
    IF file = "outlets"
    THEN <<Entry(6, OutletInfo("Sephora", "")), Entry(7, OutletInfo("Macys", "NYC"))>>
    ELSE <<>>

ManageConcentrations(file) ==
    IF file = "concentrations" THEN <<Entry(8, "EDP"), Entry(9, "EDT")>>
    ELSE <<Entry(8, "EDP")>>

ManagePurchaseTypes(file) ==
    IF file = "purchase_types" THEN <<Entry(10, "full"), Entry(11, "decant")>>
    ELSE <<Entry(10, "full")>>

ManagePerfumes(file) ==
    (12 :> [Perfume(12, "No5", IF file = "brands" THEN 2 ELSE 1) EXCEPT
               !.concentration_id = IF file = "concentrations" THEN 9 ELSE 8,
               !.tag_ids = IF file = "tags" THEN <<4, 5, 3>> ELSE <<>>,
               !.outlet_ids = IF file = "outlets" THEN <<7, 6>> ELSE <<>>,
               !.events = <<Event(13, "buy", <<50>>,
                                  IF file = "purchase_types" THEN 11 ELSE NoId,
                                  "")>>])
    @@ (14 :> [Perfume(14, "Sauvage", 1) EXCEPT
                  !.tag_ids = IF file = "tags" THEN <<5, 4>> ELSE <<>>,
                  !.outlet_ids = IF file = "outlets" THEN <<6>> ELSE <<>>,
                  !.events = IF file = "purchase_types"
                             THEN <<Event(15, "buy", <<10>>, 10, "")>> ELSE <<>>])

ManageInit ==
    /\ CalcIdle
    /\ \E file \in Tabs :
          /\ app_data = AppData(<<12, 14>>, ManageBrands(file), ManageTags(file),
                                ManageConcentrations(file), ManageOutlets(file),
                                ManagePurchaseTypes(file))
          /\ heap = ManagePerfumes(file)
    /\ perfumes = <<12, 14>>
    /\ aliased = TRUE
    /\ next_id = 16
    /\ filter_config = DefaultFilterConfig
    /\ sort_config = DefaultSortConfig
    /\ filtered_ids = <<12, 14>>
    /\ dlg = DialogClosed
    /\ msg = ""

ManageNext ==
    \/ \E tab \in Tabs, mode \in SortModes : OnSortChange(tab, mode)
    \/ \E tab \in Tabs, idx \in Rows : MoveUp(tab, idx)
    \/ \E tab \in Tabs, idx \in Rows : MoveDown(tab, idx)
    \/ \E tab \in Tabs : \E sel \in SUBSET (1..Len(CurrentMap(tab))) :
           \E new_name \in RenameInputs(tab), new_region \in RegionInputs :
               RenameSelected(tab, sel, new_name, new_region)
    \/ \E tab \in Tabs : \E sel \in SUBSET (1..Len(CurrentMap(tab))) :
           \E keep_name \in RenameInputs(tab) : MergeSelected(tab, sel, keep_name)
    \/ \E tab \in Tabs : \E sel \in SUBSET (1..Len(CurrentMap(tab))) :
           \E confirm \in BOOLEAN : DeleteSelected(tab, sel, confirm)

SpecManage == ManageInit /\ [][ManageNext]_vars

(***************************************************************************)
(* Merge, delete and referential integrity                                 *)
(***************************************************************************)
\* the perfumes of App.perfumes
ListedPerfumes == {heap[perfumes[i]] : i \in 1..Len(perfumes)}

NoDuplicate(ids) == \A i, j \in 1..Len(ids) : ids[i] = ids[j] => i = j

FirstIndex(ids, x) ==
    CHOOSE i \in 1..Len(ids) : ids[i] = x /\ \A j \in 1..(i - 1) : ids[j] # x

\* after holds the elements of before once each, in the order in which they
\* first occur in before
FirstSeenOrder(before, after) ==
    /\ NoDuplicate(after)
    /\ SeqSet(after) = SeqSet(before)
    /\ \A i, j \in 1..Len(after) :
           i < j => FirstIndex(before, after[i]) < FirstIndex(before, after[j])

\* a reference after the merge: the target in place of a merged id
Redirected(id, others, target) == IF id \in others THEN target ELSE id

\* a reference list after the merge: untouched if it held no merged id,
\* else redirected and free of duplicates in first-seen order
ListMerged(before, after, others, target) ==
    IF SeqSet(before) \cap others = {} THEN after = before
    ELSE FirstSeenOrder(
             [i \in 1..Len(before) |-> Redirected(before[i], others, target)], after)

\* what a merge of the rows sel of the table of the tab must have done by
\* the next state, keep_value being the name kept
MergePost(tab, sel, keep_value) ==
    LET map == CurrentMap(tab)
        after == CurrentMap(tab)'
        row == CHOOSE i \in sel : \A j \in sel : i <= j
        target == map[row].id
        merged == {map[i].id : i \in sel}
        others == merged \ {target}
    IN /\ MapKeys(after) = SelectSeq(MapKeys(map), LAMBDA k : k \notin others)
       /\ after[row].id = target
       /\ after[row].item = IF tab = "outlets" THEN OutletInfo(keep_value, "")
                            ELSE keep_value
       /\ \A i \in 1..Len(after) :
              i # row => after[i].item = MapGet(map, after[i].id, "")
       /\ SeqSet(MapKeys(after)) \cap merged = {target}
       /\ \A t \in Tabs \ {tab} : CurrentMap(t)' = CurrentMap(t)
       /\ perfumes' = perfumes
       /\ \A i \in 1..Len(perfumes) :
              LET p == heap[perfumes[i]]
                  q == heap'[perfumes[i]]
              IN /\ q.brand_id = IF tab = "brands"
                                 THEN Redirected(p.brand_id, others, target)
                                 ELSE p.brand_id
                 /\ q.concentration_id =
                        IF tab = "concentrations"
                        THEN Redirected(p.concentration_id, others, target)
                        ELSE p.concentration_id
                 /\ IF tab = "tags"
                    THEN ListMerged(p.tag_ids, q.tag_ids, others, target)
                    ELSE q.tag_ids = p.tag_ids
                 /\ IF tab = "outlets"
                    THEN ListMerged(p.outlet_ids, q.outlet_ids, others, target)
                    ELSE q.outlet_ids = p.outlet_ids
                 /\ Len(q.events) = Len(p.events)
                 /\ \A j \in 1..Len(p.events) :
                        q.events[j] =
                            IF tab = "purchase_types"
                            THEN [p.events[j] EXCEPT !.purchase_type_id =
                                      Redirected(@, others, target)]
                            ELSE p.events[j]

\* C1: a merge of two or more selected rows of any reference table, with a
\* name entered: the target is the first selected id and stays in its row;
\* its value becomes the name entered (trimmed; an outlet gets that name and
\* no region); every perfume of App.perfumes (brand_id, concentration_id,
\* tag_ids, outlet_ids) and every event (purchase_type_id) that referred to
\* a selected id other than the target refers to the target instead; a
\* rewritten tag_ids / outlet_ids list has no duplicate and keeps first-seen
\* order; every other selected id is gone from the table, so exactly one of
\* the merged entries remains; nothing else changes.
C1_MergePostconditions ==
    [][\A tab \in Tabs : \A sel \in SUBSET (1..Len(CurrentMap(tab))) :
          \A keep_name \in RenameInputs(tab) :
              (Cardinality(sel) >= 2 /\ keep_name # ""
                   /\ MergeSelected(tab, sel, keep_name))
                  => MergePost(tab, sel, Strip(keep_name))]_vars

\* tags 4 and 5 have been merged under the name "want": the perfume that
\* held <<4, 5, 3>> holds <<4, 3>>, the one that held <<5, 4>> holds <<4>>
C1_Witness ==
    /\ msg = "Merged"
    /\ app_data.tags_map = <<Entry(3, "want"), Entry(4, "want")>>
    /\ heap[12].tag_ids = <<4, 3>>
    /\ heap[14].tag_ids = <<4>>

\* the number of references to an entry: the perfumes of App.perfumes that
\* hold the id, for a purchase type the events that hold it
UsageCount(tab, id) ==
    CASE tab = "brands" -> Cardinality({p \in ListedPerfumes : p.brand_id = id})
      [] tab = "concentrations" ->
            Cardinality({p \in ListedPerfumes : p.concentration_id = id})
      [] tab = "tags" -> Cardinality({p \in ListedPerfumes : id \in SeqSet(p.tag_ids)})
      [] tab = "outlets" ->
            Cardinality({p \in ListedPerfumes : id \in SeqSet(p.outlet_ids)})
      [] tab = "purchase_types" ->
            Cardinality({e \in UNION {SeqSet(p.events) : p \in ListedPerfumes} :
                            e.purchase_type_id = id})

\* what a delete of the rows sel of the table of the tab must have done
DeletePost(tab, sel, confirm) ==
    LET map == CurrentMap(tab)
        selected == {map[i].id : i \in sel}
        in_use == \E id \in selected : UsageCount(tab, id) > 0
    IN /\ perfumes' = perfumes
       /\ heap' = heap
       /\ \A t \in Tabs \ {tab} : CurrentMap(t)' = CurrentMap(t)
       /\ in_use => msg' = "Cannot Delete" /\ CurrentMap(tab)' = map
       /\ (~in_use /\ ~confirm) => CurrentMap(tab)' = map
       /\ (~in_use /\ confirm) =>
              CurrentMap(tab)' = SelectSeq(map, LAMBDA e : e.id \notin selected)

\* C2: a delete on a reference table is rejected whenever a selected entry
\* is in use, and then no entry is removed: the table, the other tables and
\* the perfumes are unchanged; when no selected entry is in use and the user
\* confirms, exactly the selected entries are removed and nothing else
\* changes.
C2_DeleteRejectedWhenInUse ==
    [][\A tab \in Tabs : \A sel \in SUBSET (1..Len(CurrentMap(tab))) :
          \A confirm \in BOOLEAN :
              (sel # {} /\ DeleteSelected(tab, sel, confirm))
                  => DeletePost(tab, sel, confirm)]_vars

\* a delete has been rejected: the purchase type the buy event names is
\* still in the table
C2_Witness ==
    /\ msg = "Cannot Delete"
    /\ \E i \in 1..Len(app_data.purchase_types_map) :
           UsageCount("purchase_types", app_data.purchase_types_map[i].id) > 0

\* C3: every non-empty brand_id and concentration_id, and every element of
\* tag_ids and outlet_ids, of a perfume of App.perfumes is a key of its
\* reference table.
C3_ReferentialIntegrity ==
    \A p \in ListedPerfumes :
        /\ p.brand_id # NoId => MapHas(app_data.brands_map, p.brand_id)
        /\ p.concentration_id # NoId =>
               MapHas(app_data.concentrations_map, p.concentration_id)
        /\ \A i \in 1..Len(p.tag_ids) : MapHas(app_data.tags_map, p.tag_ids[i])
        /\ \A i \in 1..Len(p.outlet_ids) :
               MapHas(app_data.outlets_map, p.outlet_ids[i])

\* the two outlets of the perfume have been merged into one, which the
\* perfume still refers to
C3_Witness ==
    /\ msg = "Merged"
    /\ Len(app_data.outlets_map) = 1
    /\ \E p \in ListedPerfumes : p.outlet_ids = <<app_data.outlets_map[1].id>>


(***************************************************************************)
(* SpecSort and SpecFacets: the sort dialog and the filter dialog applied  *)
(* to a list of three perfumes.  The data file holds two brands, two tags  *)
(* and three of five perfumes, in any order; the five differ in brand,     *)
(* name (two names are equal up to case), community tallies, own votes,    *)
(* tags and events.                                                        *)
(***************************************************************************)
\* p.fragrantica as _save_fragrantica leaves it, with 10 votes on the given
\* <<block, option>> pairs
QueryFragrantica(tops) ==
    [k \in BlockNames \cup {"source", "last_updated"} |->
        IF k = "source" THEN "fragrantica"
        ELSE IF k = "last_updated" THEN 1
        ELSE [x \in KeySet(BlockKeys(k)) |-> IF <<k, x>> \in tops THEN 10 ELSE 0]]

QueryPerfumes ==
    (11 :> [Perfume(11, "No5", 1) EXCEPT
               !.tag_ids = <<3>>,
               !.events = <<Event(21, "buy", <<10>>, NoId, "")>>,
               !.fragrantica = QueryFragrantica({<<"rating_votes", "love">>,
                                                 <<"season_time_votes", "summer">>,
                                                 <<"gender_votes", "female">>})])
    @@ (12 :> [Perfume(12, "no5", 2) EXCEPT
               !.events = <<Event(22, "smell", None, NoId, "")>>,
               !.fragrantica = QueryFragrantica({<<"rating_votes", "love">>,
                                                 <<"gender_votes", "unisex">>})])
    @@ (13 :> [Perfume(13, "Sauvage", 2) EXCEPT
               !.tag_ids = <<4>>,
               !.events = <<Event(23, "skin", None, NoId, "want")>>,
               !.fragrantica = QueryFragrantica({<<"rating_votes", "like">>,
                                                 <<"longevity_votes", "long">>,
                                                 <<"gender_votes", "male">>}),
               !.my_votes = [k \in {"my_season_time_votes"} |->
                                [x \in {"night"} |-> 1]]])
    @@ (14 :> Perfume(14, "Sauvage", 1))
    @@ (15 :> [Perfume(15, "No5", 1) EXCEPT
               !.tag_ids = <<4, 3>>,
               !.events = <<Event(24, "buy", <<10>>, NoId, ""),
                            Event(25, "sell", <<0 - 10>>, NoId, "")>>,
               !.fragrantica = QueryFragrantica({}),
               !.my_votes = [k \in {"my_gender_votes"} |->
                                [x \in KeySet(GENDER_5) |->
                                    IF x = "male" THEN 1 ELSE 0]]])

QueryInit ==
    /\ CalcIdle
    /\ \E plist \in [1..3 -> DOMAIN QueryPerfumes] :
           /\ \A i, j \in 1..3 : i # j => plist[i] # plist[j]
           /\ app_data = AppData(plist,
                                 <<Entry(1, "Chanel"), Entry(2, "Dior")>>,
                                 <<Entry(3, "want"), Entry(4, "Summer")>>,
                                 <<Entry(5, "EDP")>>, <<>>, <<Entry(6, "full")>>)
           /\ perfumes = plist
           /\ heap = [pid \in SeqSet(plist) |-> QueryPerfumes[pid]]
           /\ filtered_ids = plist
    /\ aliased = TRUE
    /\ next_id = 30
    /\ filter_config = DefaultFilterConfig
    /\ sort_config = DefaultSortConfig
    /\ dlg = DialogClosed
    /\ msg = ""

\* the (dimension, order) pairs the sort dialog offers, some of them
SortChoices ==
    { <<"rating", "desc">>, <<"rating", "asc">>, <<"name", "asc">>,
      <<"name", "desc">>, <<"brand", "asc">>, <<"brand", "desc">>,
      <<"gender", "unisex_first">>, <<"gender", "female_first">>,
      <<"gender", "male_first">>, <<"state", "owned_first">> }

\* the SortConfig of SortDialog._apply: up to two active dimensions, a
\* dimension at most once
SortConfigs ==
    {DefaultSortConfig}
    \cup {[dimensions |-> <<a>>] : a \in SortChoices}
    \cup {[dimensions |-> <<c[1], c[2]>>] :
             c \in {d \in SortChoices \X SortChoices : d[1][1] # d[2][1]}}

\* ui_open_sort.on_apply, lines 3387-3390
ApplySort(config) ==
    /\ sort_config' = config
    /\ UNCHANGED <<app_data, perfumes, aliased, heap, next_id, filter_config,
                   dlg, msg>>
    /\ UNCHANGED calc_vars
    /\ filtered_ids' = RefreshList(perfumes, heap, filter_config, config)

SortNext == \E config \in SortConfigs : ApplySort(config)

SpecSort == QueryInit /\ [][SortNext]_vars


(***************************************************************************)
(* Claims C12-C14: the list sort                                           *)
(***************************************************************************)
\* C12: sorting with SortConfig [(rating, desc), (name, asc)] gives a
\* permutation of the input in which the rating scores are non-increasing
\* and, among perfumes with equal rating score, the lower-cased names are
\* non-decreasing.
C12_RatingThenName ==
    sort_config.dimensions = << <<"rating", "desc">>, <<"name", "asc">> >> =>
        /\ Len(filtered_ids) = Len(perfumes)
        /\ SeqSet(filtered_ids) = SeqSet(perfumes)
        /\ \A i, j \in 1..Len(filtered_ids) : i < j =>
               LET a == heap[filtered_ids[i]]
                   b == heap[filtered_ids[j]]
                   ra == FacetScore(a, "rating_votes")
                   rb == FacetScore(b, "rating_votes")
               IN /\ ScoreLeq(rb, ra)
                  /\ ScoreEq(ra, rb) => ~StrLess(Lower(b.name), Lower(a.name))

C12_Witness ==
    /\ sort_config.dimensions = << <<"rating", "desc">>, <<"name", "asc">> >>
    /\ perfumes = <<14, 15, 11>>
    /\ filtered_ids = <<11, 15, 14>>

\* C13: for the brand and the name dimension, order "desc" lists the
\* perfumes by descending lower-cased string.
C13_DescendingStrings ==
    \A dim \in {"brand", "name"} :
        sort_config.dimensions = << <<dim, "desc">> >> =>
            \A i, j \in 1..Len(filtered_ids) : i < j =>
                LET a == heap[filtered_ids[i]]
                    b == heap[filtered_ids[j]]
                    sa == IF dim = "brand" THEN Lower(get_brand_name(a.brand_id))
                          ELSE Lower(a.name)
                    sb == IF dim = "brand" THEN Lower(get_brand_name(b.brand_id))
                          ELSE Lower(b.name)
                IN ~StrLess(sa, sb)

\* C14: the sort is stable and total on its key: the keys of the result are
\* non-decreasing and perfumes with equal keys keep their input order; a
\* second dimension leaves the relative order of perfumes that differ on the
\* first as the sort by the first alone gives it; an empty SortConfig gives
\* the input order.
C14_StableSort ==
    LET key(pid) == sort_key(heap[pid], sort_config)
        dims == sort_config.dimensions
    IN /\ dims = <<>> => filtered_ids = perfumes
       /\ \A i, j \in 1..Len(filtered_ids) : i < j =>
              LET c == KeyCmp(key(filtered_ids[i]), key(filtered_ids[j]))
              IN /\ c <= 0
                 /\ c = 0 => FirstIndex(perfumes, filtered_ids[i])
                                 < FirstIndex(perfumes, filtered_ids[j])
       /\ Len(dims) = 2 =>
              LET first == [dimensions |-> <<dims[1]>>]
                  by_first == sort_perfumes(perfumes, heap, first)
              IN \A x, y \in SeqSet(perfumes) :
                     KeyCmp(sort_key(heap[x], first), sort_key(heap[y], first)) # 0
                         => (FirstIndex(filtered_ids, x) < FirstIndex(filtered_ids, y)
                               <=> FirstIndex(by_first, x) < FirstIndex(by_first, y))

C14_Witness ==
    /\ sort_config.dimensions = << <<"brand", "asc">>, <<"rating", "desc">> >>
    /\ perfumes = <<15, 11, 14>>
    /\ filtered_ids = <<11, 15, 14>>


(***************************************************************************)
(* SpecFacets: the filter dialog applied to the list of three perfumes.    *)
(* Each Apply changes the widgets of one facet; at most MaxActiveFacets    *)
(* facets are set at a time.                                               *)
(***************************************************************************)
MaxActiveFacets == 2

\* the fields of FilterConfig, by facet
Facets ==
    { {"brands"}, {"states"}, {"seasons", "times"},
      {"rating_min", "rating_max", "rating_exclude"},
      {"longevity_min", "longevity_max", "longevity_exclude"},
      {"sillage_min", "sillage_max", "sillage_exclude"},
      {"value_min", "value_max", "value_exclude"},
      {"gender_preference"}, {"tags", "tags_logic"},
      {"has_my_vote"}, {"has_fragrantica"} }

\* the facet deviates from its default: a non-empty list, a range narrower
\* than the slider, a ticked box
FacetIsActive(config, facet) ==
    IF "tags" \in facet THEN config.tags # <<>>
    ELSE \E k \in facet : config[k] # DefaultFilterConfig[k]

\* the configuration with only the given facets kept
KeepFacets(config, kept) ==
    [k \in DOMAIN config |->
        IF \E facet \in kept : k \in facet THEN config[k]
        ELSE DefaultFilterConfig[k]]

\* what the widgets of one facet can be set to
FacetSettings ==
    {[brands |-> x] : x \in {<<>>, <<"Chanel">>}}
    \cup {[states |-> x] : x \in {<<>>, <<"owned">>, <<"tested">>, <<"wishlist">>,
                                   <<"owned", "tested">>}}
    \cup {[seasons |-> x, times |-> y] :
             x \in {<<>>, <<"summer">>}, y \in {<<>>, <<"night">>}}
    \cup {[rating_min |-> r[1], rating_max |-> r[2], rating_exclude |-> ex] :
             r \in {<<0, 50>>, <<45, 50>>}, ex \in BOOLEAN}
    \cup {[longevity_min |-> 0, longevity_max |-> x, longevity_exclude |-> FALSE] :
             x \in {20, 50}}
    \cup {[sillage_min |-> 0, sillage_max |-> 40, sillage_exclude |-> ex] :
             ex \in BOOLEAN}
    \cup {[value_min |-> x, value_max |-> 50, value_exclude |-> FALSE] :
             x \in {0, 10}}
    \cup {[gender_preference |-> x] : x \in {<<>>, <<"female">>, <<"male", "unisex">>}}
    \cup {[tags |-> <<>>, tags_logic |-> "or"]}
    \cup {[tags |-> x, tags_logic |-> y] :
             x \in {<<"want">>, <<"want", "Summer">>}, y \in {"or", "and"}}
    \cup {[has_my_vote |-> x] : x \in BOOLEAN}
    \cup {[has_fragrantica |-> x] : x \in BOOLEAN}

\* FilterDialog._build_config after the widgets of one facet were set
BuildConfig(config, setting) ==
    [k \in DOMAIN config |->
        IF k \in DOMAIN setting THEN setting[k] ELSE config[k]]

FacetsNext ==
    \E setting \in FacetSettings :
        LET config == BuildConfig(filter_config, setting)
        IN /\ Cardinality({facet \in Facets : FacetIsActive(config, facet)})
                  <= MaxActiveFacets
           /\ ApplyFilter(config)

SpecFacets == QueryInit /\ [][FacetsNext]_vars

\* C11: a perfume is listed iff it passes every active facet taken alone; a
\* default FilterConfig lists every perfume; and the list under a
\* configuration is within the list under the configuration with one of its
\* active facets switched off.
C11_FacetsConjoin ==
    LET active == {facet \in Facets : FacetIsActive(filter_config, facet)}
    IN /\ \A pid \in SeqSet(perfumes) :
              pid \in SeqSet(filtered_ids) <=>
                  \A facet \in active :
                      App_matches_filter(heap[pid], KeepFacets(filter_config, {facet}))
       /\ filter_config = DefaultFilterConfig => filtered_ids = perfumes
       /\ \A facet \in active :
              SeqSet(filtered_ids) \subseteq
                  SeqSet(RefreshList(perfumes, heap,
                                     KeepFacets(filter_config, Facets \ {facet}),
                                     sort_config))

C11_Witness ==
    /\ filter_config.states = <<"owned">>
    /\ filter_config.tags = <<"want">>
    /\ perfumes = <<11, 13, 15>>
    /\ filtered_ids = <<11>>


(***************************************************************************)
(* Claims C15 and C20: merge of one entry, rename and reorder              *)
(***************************************************************************)
\* C15: a merge with a single selected row is a no-op: no id is removed, the
\* table order is unchanged and no perfume or event reference is changed
\* (the handler returns before it asks for a name, so the value of the
\* entry is unchanged as well).
C15_SingletonMergeNoOp ==
    [][\A tab \in Tabs : \A sel \in SUBSET (1..Len(CurrentMap(tab))) :
          \A keep_name \in RenameInputs(tab) :
              (Cardinality(sel) = 1 /\ MergeSelected(tab, sel, keep_name))
                  => /\ app_data' = app_data
                     /\ perfumes' = perfumes
                     /\ heap' = heap]_vars

\* the three tags have been merged into one, and a merge of that one entry
\* was asked for
C15_Witness ==
    /\ msg = "Select Multiple"
    /\ Len(app_data.tags_map) = 1
    /\ \E i \in 1..Len(perfumes) : Len(heap[perfumes[i]].tag_ids) = 1

\* what a rename or a reorder leaves alone: the other tables, the perfumes
\* and their events, and the ids of the table
TableFrame(tab) ==
    /\ \A t \in Tabs \ {tab} : CurrentMap(t)' = CurrentMap(t)
    /\ app_data'.perfumes = app_data.perfumes
    /\ perfumes' = perfumes
    /\ heap' = heap
    /\ Len(CurrentMap(tab)') = Len(CurrentMap(tab))
    /\ SeqSet(MapKeys(CurrentMap(tab)')) = SeqSet(MapKeys(CurrentMap(tab)))

\* C20: rename and reorder (sort by name, sort by count, move up, move down)
\* create and destroy no id and change no perfume and no event; rename
\* changes only the value under the renamed id and leaves the table order
\* unchanged; reorder leaves every id -> value pair unchanged.
C20_RenameReorderFrame ==
    [][\A tab \in Tabs :
          /\ \A sel \in SUBSET (1..Len(CurrentMap(tab))) :
                 \A new_name \in RenameInputs(tab), new_region \in RegionInputs :
                     RenameSelected(tab, sel, new_name, new_region) =>
                         /\ TableFrame(tab)
                         /\ MapKeys(CurrentMap(tab)') = MapKeys(CurrentMap(tab))
                         /\ \A i \in 1..Len(CurrentMap(tab)) :
                                i \notin sel => CurrentMap(tab)'[i] = CurrentMap(tab)[i]
          /\ ((\E mode \in SortModes : OnSortChange(tab, mode))
                 \/ (\E idx \in Rows : MoveUp(tab, idx) \/ MoveDown(tab, idx)))
                => /\ TableFrame(tab)
                   /\ SeqSet(CurrentMap(tab)') = SeqSet(CurrentMap(tab))]_vars

\* the second tag has been renamed to the name of the first, in place; the
\* perfumes hold the ids they held
C20_Witness ==
    /\ msg = "Renamed"
    /\ app_data.tags_map
           = <<Entry(3, "want"), Entry(4, "want"), Entry(5, "gift")>>
    /\ heap[12].tag_ids = <<4, 5, 3>>


(***************************************************************************)
(* Claim C19: find-or-create on the brand, tag and outlet tables           *)
(***************************************************************************)
\* the ids in use: the keys of the tables and the perfumes
UsedIds ==
    UNION {SeqSet(MapKeys(CurrentMap(t))) : t \in Tabs}
    \cup SeqSet(perfumes) \cup SeqSet(app_data.perfumes)

\* r is the result of a call on the table with the value, r2 of the same
\* call repeated on the result; names gives the name of each entry and item
\* is the entry a new name gets
FindOrCreatePost(map, names, value, item, r, r2) ==
    LET matches == {i \in 1..Len(map) : names[i] = value}
    IN /\ matches # {} =>
              /\ r.id = map[CHOOSE i \in matches : \A j \in matches : i <= j].id
              /\ r.map = map
              /\ r.next = next_id
       /\ matches = {} =>
              /\ r.map = Append(map, [id |-> r.id, item |-> item])
              /\ r.id \notin UsedIds
       /\ SubSeq(r.map, 1, Len(map)) = map
       /\ r2.id = r.id
       /\ r2.map = r.map

LastEventId == 12

MaxEvents == 2

LocationInputs == {"", " Sephora "}

NoteInputs == {"", "Want more"}

MlInputs == {0, 10}

\* ml if event_type == "buy" else -ml if ml else None, lines 1655 and 4082
TransactionDelta(event_type, ml) ==
    IF event_type = "buy" THEN <<ml>>
    ELSE IF ml # 0 THEN <<0 - ml>> ELSE None

\* what the handlers of the event log leave alone
EventsFrame ==
    /\ UNCHANGED <<perfumes, aliased, filter_config, sort_config, dlg>>
    /\ UNCHANGED calc_vars

\* Event(id=new_id(), ...); perfume.events.append(e); self._refresh_list()
AppendEvent(pid, e) ==
    /\ e.id <= LastEventId
    /\ Len(heap[pid].events) < MaxEvents
    /\ heap' = [heap EXCEPT ![pid].events = Append(@, e)]
    /\ next_id' = e.id + 1
    /\ EventsFrame
    /\ filtered_ids' = RefreshList(perfumes, heap', filter_config, sort_config)

\* App._add_event_simple, called by the Smell and Skin buttons (note "") and
\* by the Add Smell / Add Skin form of the Events dialog
add_event_simple(selected, event_type, location, note) ==
    /\ selected \in SeqSet(filtered_ids)
    /\ LET r == find_or_create_outlet(app_data.outlets_map, next_id, location)
       IN /\ app_data' = [app_data EXCEPT !.outlets_map = r.map]
          /\ AppendEvent(selected,
                         Event(r.next, event_type, None, NoId, Strip(note)))
    /\ msg' = ""

\* App.get_all_purchase_type_names
get_all_purchase_type_names ==
    [i \in 1..Len(app_data.purchase_types_map) |->
        app_data.purchase_types_map[i].item]

\* what the read-only Format box of the transaction form can hold: the value
\* it opens with or a name of the purchase-type table
FormatChoices(default_format) ==
    {default_format} \cup SeqSet(get_all_purchase_type_names)

\* the value the Format box of an Add Buy / Add Sell form opens with
DefaultFormat ==
    IF get_all_purchase_type_names # <<>>
    THEN get_all_purchase_type_names[1] ELSE ""

\* App._add_event_transaction, called by the Add Buy / Add Sell form with
\* the Format item_type
add_event_transaction(selected, event_type, item_type, ml) ==
    /\ selected \in SeqSet(filtered_ids)
    /\ item_type \in FormatChoices(DefaultFormat)
    /\ AppendEvent(selected,
                   [Event(next_id, event_type, TransactionDelta(event_type, ml),
                          NoId, "")
                       EXCEPT !.purchase_type = Strip(item_type)])
    /\ UNCHANGED app_data
    /\ msg' = ""

\* App.quick_buy
quick_buy(selected, ml_delta) ==
    /\ selected \in SeqSet(filtered_ids)
    /\ AppendEvent(selected,
                   Event(next_id, IF ml_delta >= 0 THEN "buy" ELSE "sell",
                         <<ml_delta>>, NoId, "quick"))
    /\ UNCHANGED app_data
    /\ msg' = ""

\* EditEventsDialog._edit_selected on row idx of the log: the form of the
\* type of the event is saved; the main list is not refreshed
edit_selected(selected, idx, item_type, ml, note) ==
    /\ selected \in SeqSet(filtered_ids)
    /\ idx \in 1..Len(heap[selected].events)
    /\ LET e == heap[selected].events[idx]
       IN /\ item_type \in FormatChoices(e.purchase_type)
          /\ heap' = [heap EXCEPT ![selected].events[idx] =
                      IF e.event_type \in {"smell", "skin"}
                      THEN [e EXCEPT !.note = Strip(note)]
                      ELSE [e EXCEPT !.purchase_type = Strip(item_type),
                                     !.ml_delta = TransactionDelta(e.event_type, ml),
                                     !.note = Strip(note)]]
    /\ UNCHANGED <<app_data, next_id, filtered_ids>>
    /\ EventsFrame
    /\ msg' = ""

\* EditEventsDialog._delete_selected: App._delete_event for every selected
\* row of the log
delete_selected(selected, sel, confirm) ==
    /\ selected \in SeqSet(filtered_ids)
    /\ sel \subseteq 1..Len(heap[selected].events)
    /\ UNCHANGED <<app_data, next_id>>
    /\ EventsFrame
    /\ IF sel = {}
       THEN /\ msg' = "Select"
            /\ UNCHANGED <<heap, filtered_ids>>
       ELSE /\ msg' = "Confirm"
            /\ IF confirm
               THEN /\ heap' = [heap EXCEPT ![selected].events =
                                   SelectSeq(@, LAMBDA e :
                                       \A i \in sel : heap[selected].events[i].id # e.id)]
                    /\ filtered_ids' = RefreshList(perfumes, heap', filter_config,
                                                   sort_config)
               ELSE UNCHANGED <<heap, filtered_ids>>

EventsInit ==
    /\ CalcIdle
    /\ app_data = AppData(<<4>>, <<Entry(1, "Chanel")>>,
                          <<Entry(2, "Want"), Entry(3, "Summer")>>,
                          <<Entry(5, "EDP")>>,
                          <<Entry(6, OutletInfo("Sephora", ""))>>,
                          <<Entry(7, "full")>>)
    /\ perfumes = <<4>>
    /\ aliased = TRUE
    /\ \E tag_ids \in {<<>>, <<2>>, <<3>>} :
           heap = (4 :> [Perfume(4, "No5", 1) EXCEPT !.tag_ids = tag_ids])
    /\ next_id = 10
    /\ filter_config = DefaultFilterConfig
    /\ sort_config = DefaultSortConfig
    /\ filtered_ids = <<4>>
    /\ dlg = DialogClosed
    /\ msg = ""

\* the states facet as the three check boxes of the filter dialog give it
StatesFacets ==
    { <<>>, <<"owned">>, <<"tested">>, <<"wishlist">>, <<"owned", "tested">>,
      <<"owned", "wishlist">>, <<"tested", "wishlist">>,
      <<"owned", "tested", "wishlist">> }

FormatInputs == {"", "full", "decant"}

\* the states facets the filter is set to
StatesInputs == { <<>>, <<"owned">>, <<"wishlist">>, <<"owned", "wishlist">> }

EventsNext ==
    \/ \E event_type \in {"smell", "skin"}, location \in LocationInputs,
          note \in NoteInputs : add_event_simple(4, event_type, location, note)
    \/ \E event_type \in {"buy", "sell"}, item_type \in FormatInputs,
          ml \in MlInputs : add_event_transaction(4, event_type, item_type, ml)
    \/ \E ml_delta \in {0 - 10, 10} : quick_buy(4, ml_delta)
    \/ \E idx \in 1..MaxEvents, item_type \in FormatInputs, ml \in MlInputs,
          note \in NoteInputs : edit_selected(4, idx, item_type, ml, note)
    \/ \E sel \in SUBSET (1..MaxEvents), confirm \in BOOLEAN :
           delete_selected(4, sel, confirm)
    \/ \E states \in StatesInputs :
           ApplyFilter([DefaultFilterConfig EXCEPT !.states = states])

SpecEvents == EventsInit /\ [][EventsNext]_vars


(***************************************************************************)
(* Claim C16                                                               *)
(***************************************************************************)
\* the four conditions of the label of perfume p, read off its log and tags
IsTested(p) == \E e \in SeqSet(p.events) : e.event_type \in {"smell", "skin"}

IsOnSkin(p) == \E e \in SeqSet(p.events) : e.event_type = "skin"

\* the signed sum of the volume deltas of the log, an event with no delta
\* counting 0
RECURSIVE SignedSum(_, _)
SignedSum(events, n) ==
    IF n = 0 THEN 0
    ELSE SignedSum(events, n - 1)
         + (IF events[n].ml_delta = None THEN 0 ELSE events[n].ml_delta[1])

IsOwned(p) == SignedSum(p.events, Len(p.events)) > 0

IsWanted(p) ==
    \/ \E name \in SeqSet(TagNames(p)) : Lower(name) = "want"
    \/ \E e \in SeqSet(p.events) : ContainsWant(e.note)

\* two parts of a label with " | " between them, an absent part being ""
Bar(a, b) == IF a = "" THEN b ELSE IF b = "" THEN a ELSE a \o " | " \o b

OwnedClause(p) ==
    IF IsOwned(p)
    THEN "Owned " \o ToString(SignedSum(p.events, Len(p.events))) \o "ml"
    ELSE ""

WantClause(p) == IF IsWanted(p) THEN "Want" ELSE ""

\* C16: the label of every perfume is the clauses "Tested", "On-skin",
\* "Owned <volume>ml", "Want" of the conditions that hold, in that order and
\* joined by " | "; it is "New" iff none of the four holds; and a label with
\* "On-skin" begins with "Tested | On-skin"
C16_LabelOrder ==
    \A pid \in DOMAIN heap :
       LET p == heap[pid]
           label == derive_state(p, TagNames(p)).state
           rest == Bar(OwnedClause(p), WantClause(p))
           all == Bar(Bar(IF IsTested(p) THEN "Tested" ELSE "",
                          IF IsOnSkin(p) THEN "On-skin" ELSE ""), rest)
       IN /\ label = (IF all = "" THEN "New" ELSE all)
          /\ (label = "New") <=>
                ~(IsTested(p) \/ IsOnSkin(p) \/ IsOwned(p) \/ IsWanted(p))
          /\ IsOnSkin(p) => label = Bar("Tested | On-skin", rest)

\* a skin event, a purchase and a note with "Want": all four clauses
C16_Witness ==
    /\ IsOnSkin(heap[4]) /\ IsOwned(heap[4]) /\ IsWanted(heap[4])
    /\ heap[4].tag_ids # <<2>>
    /\ derive_state(heap[4], TagNames(heap[4])).state
         = "Tested | On-skin | Owned 10ml | Want"


(***************************************************************************)
(* Claim C17                                                               *)
(***************************************************************************)
\* the labels with the clause "Owned <volume>ml"
LabelsOwning(volume) ==
    { Bar(Bar(before, "Owned " \o ToString(volume) \o "ml"), after) :
        before \in {"", "Tested", "Tested | On-skin"}, after \in {"", "Want"} }

\* the labels with no clause "Owned"
LabelsNotOwning ==
    { "New", "Tested", "Tested | On-skin", "Want", "Tested | Want",
      "Tested | On-skin | Want" }

\* C17: whatever transactions were added, bought quickly, edited and deleted,
\* the owned volume derive_state returns is the signed sum of the deltas of
\* the events in the log, an event with no delta counting 0; the label has
\* the clause "Owned" iff the sum is > 0
C17_OwnedIsSignedSum ==
    \A pid \in DOMAIN heap :
       LET p == heap[pid]
           ds == derive_state(p, TagNames(p))
           sum == SignedSum(p.events, Len(p.events))
       IN /\ ds.owned_ml = sum
          /\ IF sum > 0 THEN ds.state \in LabelsOwning(sum)
             ELSE ds.state \in LabelsNotOwning

\* more was sold than bought and one event of the log has no delta: the
\* owned volume is below 0
C17_Witness ==
    /\ \E e \in SeqSet(heap[4].events) : e.ml_delta = None
    /\ \E e \in SeqSet(heap[4].events) : e.event_type = "sell" /\ e.note = "quick"
    /\ derive_state(heap[4], TagNames(heap[4])).owned_ml < 0


(***************************************************************************)
(* Claim C18                                                               *)
(***************************************************************************)
\* the list the main window shows when the states facet is set to states
Matching(states) ==
    RefreshList(perfumes, heap, [DefaultFilterConfig EXCEPT !.states = states],
                sort_config)

\* the states facet with the check box "Wishlist" ticked as well
AddWishlist(states) ==
    IF InList("wishlist", states) THEN states ELSE Append(states, "wishlist")

NoWishlistLabel ==
    \A pid \in DOMAIN heap :
       derive_state(heap[pid], TagNames(heap[pid])).state # "Wishlist"

WishlistAloneMatchesNothing ==
    /\ Matching(<<"wishlist">>) = <<>>
    /\ filter_config.states = <<"wishlist">> => filtered_ids = <<>>

\* C18 as stated: no perfume has the label "Wishlist", a states facet of
\* "wishlist" alone matches no perfume, and ticking "wishlist" in a states
\* facet, whatever it is, leaves the matching perfumes as they were
C18_WishlistNeverChanges ==
    /\ NoWishlistLabel
    /\ WishlistAloneMatchesNothing
    /\ \A states \in StatesFacets : Matching(AddWishlist(states)) = Matching(states)

\* C18 amended: no perfume has the label "Wishlist", a states facet of
\* "wishlist" alone matches no perfume, and ticking "wishlist" in a states
\* facet that is not empty leaves the matching perfumes as they were
C18_WishlistMatchesNothing ==
    /\ NoWishlistLabel
    /\ WishlistAloneMatchesNothing
    /\ \A states \in StatesFacets \ {<<>>} :
          Matching(AddWishlist(states)) = Matching(states)

\* a perfume that is wanted and nothing else, with a log, is hidden by the
\* states facet "wishlist"
C18_Witness ==
    /\ filter_config.states = <<"wishlist">>
    /\ heap[4].events # <<>>
    /\ derive_state(heap[4], TagNames(heap[4])).state = "Want"
    /\ perfumes = <<4>>
    /\ filtered_ids = <<>>


(***************************************************************************)
(* SpecPurchase: transactions and the purchase-type table.  One perfume    *)
(* with an empty log; buys and sells are added with a Format chosen from   *)
(* the table, edited and deleted in the Events dialog, and entries of the  *)
(* purchase-type table are deleted in Manage Data.                         *)
(***************************************************************************)
PurchaseInit ==
    /\ CalcIdle
    /\ app_data = AppData(<<4>>, <<Entry(1, "Chanel")>>, <<>>,
                          <<Entry(5, "EDP")>>, <<>>,
                          <<Entry(7, "full"), Entry(8, "decant")>>)
    /\ perfumes = <<4>>
    /\ aliased = TRUE
    /\ heap = (4 :> Perfume(4, "No5", 1))
    /\ next_id = 10
    /\ filter_config = DefaultFilterConfig
    /\ sort_config = DefaultSortConfig
    /\ filtered_ids = <<4>>
    /\ dlg = DialogClosed
    /\ msg = ""

PurchaseNext ==
    \/ \E event_type \in {"buy", "sell"}, item_type \in FormatInputs,
          ml \in MlInputs : add_event_transaction(4, event_type, item_type, ml)
    \/ \E idx \in 1..MaxEvents, item_type \in FormatInputs, ml \in MlInputs :
           edit_selected(4, idx, item_type, ml, "")
    \/ \E sel \in SUBSET (1..MaxEvents), confirm \in BOOLEAN :
           delete_selected(4, sel, confirm)
    \/ \E sel \in SUBSET (1..Len(CurrentMap("purchase_types"))) :
           \E confirm \in BOOLEAN : DeleteSelected("purchase_types", sel, confirm)

SpecPurchase == PurchaseInit /\ [][PurchaseNext]_vars

(***************************************************************************)
(* Claim C21                                                               *)
(***************************************************************************)
\* the events of the listed perfumes recorded with the purchase type name
EventsWithFormat(name) ==
    { e \in UNION {SeqSet(heap[pid].events) : pid \in SeqSet(perfumes)} :
        e.event_type \in {"buy", "sell"} /\ e.purchase_type = name }

\* C21: when an Add Buy / Add Sell form has stored an event with a Format of
\* the purchase-type table, the usage count of that entry is at least 1; and
\* a delete of an entry whose name an existing buy or sell event was
\* recorded with is rejected
C21_PurchaseTypeCounted ==
    [][/\ (\E event_type \in {"buy", "sell"}, item_type \in FormatInputs,
              ml \in MlInputs :
                add_event_transaction(4, event_type, item_type, ml))
          => LET e == heap'[4].events[Len(heap'[4].events)]
                 type_id == FindByName(app_data.purchase_types_map, e.purchase_type)
             IN type_id # NoId =>
                    CountUsage("purchase_types", type_id, perfumes', heap') >= 1
       /\ \A sel \in SUBSET (1..Len(CurrentMap("purchase_types"))) :
             (/\ \E confirm \in BOOLEAN :
                     DeleteSelected("purchase_types", sel, confirm)
              /\ \E i \in sel :
                     EventsWithFormat(app_data.purchase_types_map[i].item) # {})
             => /\ msg' = "Cannot Delete"
                /\ app_data' = app_data]_vars


(***************************************************************************)
(* SpecVotes: the community tallies and the personal votes of one perfume. *)
(* The Fragrantica form is opened, some of its entries are overwritten and *)
(* Save is pressed; vote bars are clicked; the filter dialog sets the two  *)
(* vote-status facets.                                                     *)
(***************************************************************************)
\* d[key] = value on a dict
DictPut(d, key, value) ==
    [k \in DOMAIN d \cup {key} |-> IF k = key THEN value ELSE d[k]]

\* del d[key]
DictDel(d, key) == [k \in DOMAIN d \ {key} |-> d[k]]

\* the text of an entry of the form: one int() accepts, with its value, or
\* one it raises ValueError on
IntEntry(n) == [int |-> TRUE, val |-> n]

TextEntry == [int |-> FALSE, val |-> 0]

\* the entries the form opens with: str(existing_votes.get(key, 0) or 0)
ExistingEntries(fr) ==
    [b \in BlockNames |->
        [k \in KeySet(BlockKeys(b)) |-> IntEntry(VoteGet(DictGet(fr, b), k))]]

\* the inner loop of _save_fragrantica accepts every entry of the block
BlockValid(vars_dict) ==
    \A k \in DOMAIN vars_dict : vars_dict[k].int /\ vars_dict[k].val >= 0

\* the outer loop of _save_fragrantica from block i on: a block is stored
\* as soon as it is parsed, the first invalid block ends the loop
RECURSIVE SaveBlocks(_, _, _)
SaveBlocks(fr, entry_map, i) ==
    IF i > Len(VOTE_BLOCKS) THEN [fr |-> fr, ok |-> TRUE]
    ELSE LET b == VOTE_BLOCKS[i].block
         IN IF BlockValid(entry_map[b])
            THEN SaveBlocks(DictPut(fr, b, [k \in DOMAIN entry_map[b] |->
                                              entry_map[b][k].val]),
                            entry_map, i + 1)
            ELSE [fr |-> fr, ok |-> FALSE]

\* the url and the metadata _save_fragrantica adds after the loop
WithMetadata(fr, url) ==
    LET with_url == IF url # "" THEN DictPut(fr, "url", url)
                    ELSE DictDel(fr, "url")
    IN DictPut(DictPut(with_url, "source", "fragrantica"), "last_updated", 1)

\* what the handlers of the votes leave alone
VotesFrame ==
    /\ UNCHANGED <<app_data, perfumes, aliased, next_id, filter_config,
                   sort_config, dlg>>
    /\ UNCHANGED calc_vars

\* App._save_fragrantica with the entries and the url of the form
save_fragrantica(selected, entry_map, url) ==
    /\ selected \in SeqSet(filtered_ids)
    /\ VotesFrame
    /\ LET r == SaveBlocks(heap[selected].fragrantica, entry_map, 1)
           saved == [heap EXCEPT ![selected].fragrantica = WithMetadata(r.fr, url)]
       IN IF r.ok
          THEN /\ heap' = saved
               /\ filtered_ids' = RefreshList(perfumes, saved, filter_config,
                                              sort_config)
               /\ msg' = ""
          ELSE /\ heap' = [heap EXCEPT ![selected].fragrantica = r.fr]
               /\ msg' = "Invalid"
               /\ UNCHANGED filtered_ids

\* chosen_key of set_my_vote: a key, or none for a right click
NoKey == <<>>

\* mutant: a single-choice click leaves the other options as they are
MyBlockAfter_keep_others(block, block_name, keys, chosen_key) ==
    LET cleared == [k \in DOMAIN block \cup KeySet(keys) |->
                      IF k \in KeySet(keys) THEN 0 ELSE block[k]]
    IN IF chosen_key = NoKey THEN cleared
       ELSE DictPut(block, chosen_key[1],
                    IF VoteGet(block, chosen_key[1]) > 0 THEN 0 ELSE 1)

\* the block of set_my_vote after the click, lines 4759-4775
MyBlockAfter(block, block_name, keys, chosen_key) ==
    LET cleared == [k \in DOMAIN block \cup KeySet(keys) |->
                      IF k \in KeySet(keys) THEN 0 ELSE block[k]]
    IN IF chosen_key = NoKey THEN cleared
       ELSE LET was_on == VoteGet(block, chosen_key[1]) > 0
            IN IF block_name = "season_time_votes"
               THEN DictPut(block, chosen_key[1], IF was_on THEN 0 ELSE 1)
               ELSE IF was_on THEN cleared
               ELSE DictPut(cleared, chosen_key[1], 1)

\* App.set_my_vote; the main list is not refreshed
set_my_vote(perfume_id, block_name, keys, chosen_key) ==
    /\ perfume_id \in SeqSet(perfumes)
    /\ VotesFrame
    /\ UNCHANGED <<filtered_ids, msg>>
    /\ LET p == heap[perfume_id]
           my_block_key == "my_" \o block_name
           block == DictGet(p.my_votes, my_block_key)
           new_block == MyBlockAfter(block, block_name, keys, chosen_key)
       IN heap' = [heap EXCEPT ![perfume_id].my_votes =
                      IF SumVotes(new_block, keys, 1) <= 0
                      THEN DictDel(@, my_block_key)
                      ELSE DictPut(@, my_block_key, new_block)]

UrlInputs == {"", "https://www.fragrantica.com/perfume/Chanel/No5.html"}

\* the entries of the form that are overwritten, and with what
EditedEntries ==
    {<<"rating_votes", "love">>, <<"longevity_votes", "long">>,
     <<"value_votes", "good">>}

EntryInputs == {IntEntry(0), IntEntry(1), IntEntry(0 - 1), TextEntry}

\* the form with the entry of <<block, key>> overwritten
WithEntry(entry_map, at, entry) ==
    [entry_map EXCEPT ![at[1]][at[2]] = entry]

\* the forms that are saved: the form as it opens on the tallies fr, with
\* one entry overwritten, and with an entry of the first and an entry of the
\* third block overwritten
FormInputs(fr) ==
    {ExistingEntries(fr)}
    \cup {WithEntry(ExistingEntries(fr), at, entry) :
             at \in EditedEntries, entry \in EntryInputs}
    \cup {WithEntry(WithEntry(ExistingEntries(fr),
                              <<"rating_votes", "love">>, entry),
                    <<"longevity_votes", "long">>, entry2) :
             entry \in EntryInputs, entry2 \in EntryInputs}

ClickedBlocks == {"rating_votes", "season_time_votes", "gender_votes"}

\* the vote bars that are clicked, and where
ClickedKeys(block_name) ==
    CASE block_name = "rating_votes" -> {<<"love">>, <<"like">>, NoKey}
      [] block_name = "season_time_votes" -> {<<"summer">>, <<"night">>, NoKey}
      [] block_name = "gender_votes" -> {<<"female">>, NoKey}

VoteStatusConfigs ==
    { [DefaultFilterConfig EXCEPT !.has_my_vote = a, !.has_fragrantica = b] :
        a, b \in BOOLEAN }

VotesInit ==
    /\ CalcIdle
    /\ app_data = AppData(<<4>>, <<Entry(1, "Chanel")>>, <<>>,
                          <<Entry(2, "EDP")>>, <<>>, <<Entry(3, "full")>>)
    /\ perfumes = <<4>>
    /\ aliased = TRUE
    /\ heap = (4 :> Perfume(4, "No5", 1))
    /\ next_id = 5
    /\ filter_config = DefaultFilterConfig
    /\ sort_config = DefaultSortConfig
    /\ filtered_ids = <<4>>
    /\ dlg = DialogClosed
    /\ msg = ""

VotesNext ==
    \/ \E entry_map \in FormInputs(heap[4].fragrantica), url \in UrlInputs :
           save_fragrantica(4, entry_map, url)
    \/ \E block_name \in ClickedBlocks :
       \E chosen_key \in ClickedKeys(block_name) :
           set_my_vote(4, block_name, BlockKeys(block_name), chosen_key)
    \/ \E config \in VoteStatusConfigs : ApplyFilter(config)

SpecVotes == VotesInit /\ [][VotesNext]_vars


(***************************************************************************)
(* Claims C22 and C30                                                      *)
(***************************************************************************)
\* the community tallies of the six categories, an absent block as such
CommunityTallies(fr) ==
    [b \in BlockNames |-> IF b \in DOMAIN fr THEN <<fr[b]>> ELSE <<>>]

\* some count of some category is not 0
HasCommunityVote(fr) ==
    \E b \in BlockNames \cap DOMAIN fr : \E k \in DOMAIN fr[b] : fr[b][k] # 0

\* C22: with has_fragrantica set a perfume passes the filter only if some
\* community vote count of some category is not 0
C22_HasFragranticaNeedsVotes ==
    \A pid \in DOMAIN heap :
       App_matches_filter(heap[pid],
                          [DefaultFilterConfig EXCEPT !.has_fragrantica = TRUE])
           => HasCommunityVote(heap[pid].fragrantica)

\* C30: a save of the Fragrantica form with a negative or non-integer entry
\* leaves the community tallies of every category as they were, and a save
\* that is accepted leaves a non-negative count for every option of each of
\* the six categories
C30_SaveAllOrNothing ==
    [][\A entry_map \in FormInputs(heap[4].fragrantica) :
          (\E url \in UrlInputs : save_fragrantica(4, entry_map, url))
          => IF \A b \in BlockNames : BlockValid(entry_map[b])
             THEN \A b \in BlockNames :
                     /\ b \in DOMAIN heap'[4].fragrantica
                     /\ DOMAIN heap'[4].fragrantica[b] = KeySet(BlockKeys(b))
                     /\ \A k \in KeySet(BlockKeys(b)) :
                            heap'[4].fragrantica[b][k] \in Nat
             ELSE CommunityTallies(heap'[4].fragrantica)
                      = CommunityTallies(heap[4].fragrantica)]_vars


(***************************************************************************)
(* Claim C25                                                               *)
(***************************************************************************)
\* the personal block of a category, empty when it is not stored
MyBlock(p, b) == DictGet(p.my_votes, "my_" \o b)

\* the options of the category that are set in the personal votes
MyOptions(p, b) == {k \in KeySet(BlockKeys(b)) : VoteGet(MyBlock(p, b), k) > 0}

\* the personal votes of every perfume are well formed, and the facet
\* has_my_vote passes exactly the perfumes with a personal vote
MyVotesWellFormed ==
    \A pid \in DOMAIN heap :
       LET p == heap[pid]
       IN /\ \A b \in BlockNames :
                /\ ("my_" \o b) \in DOMAIN p.my_votes => MyOptions(p, b) # {}
                /\ b # "season_time_votes" => Cardinality(MyOptions(p, b)) <= 1
          /\ App_matches_filter(p, [DefaultFilterConfig EXCEPT !.has_my_vote = TRUE])
                <=> \E b \in BlockNames : MyOptions(p, b) # {}

\* what a click on option chosen_key of the bar of block_name must have done
MyVotePost(block_name, chosen_key) ==
    LET p == heap[4]
        q == heap'[4]
        set == MyOptions(p, block_name)
    IN /\ q.fragrantica = p.fragrantica
       /\ \A b \in BlockNames \ {block_name} : MyBlock(q, b) = MyBlock(p, b)
       /\ MyOptions(q, block_name) =
             IF chosen_key = NoKey THEN {}
             ELSE IF block_name = "season_time_votes"
             THEN (set \ {chosen_key[1]}) \cup ({chosen_key[1]} \ set)
             ELSE {chosen_key[1]} \ set
       /\ chosen_key = NoKey => ("my_" \o block_name) \notin DOMAIN q.my_votes

\* C25: after any clicks on the vote bars a single-choice block has at most
\* one option set, a click on the option that is set clears it, the options
\* of season_time toggle one by one, a right click removes the block, a
\* block is stored only while one of its options is set, the facet
\* has_my_vote passes iff the perfume has a personal vote, and the
\* community tallies are not changed by a click
C25_PersonalVotes ==
    /\ []MyVotesWellFormed
    /\ [][\A block_name \in ClickedBlocks :
             \A chosen_key \in ClickedKeys(block_name) :
                set_my_vote(4, block_name, BlockKeys(block_name), chosen_key)
                    => MyVotePost(block_name, chosen_key)]_vars

\* the rating went from "love" to "like", two options of season_time are
\* set, and the perfume has community tallies
C25_Witness ==
    /\ MyOptions(heap[4], "rating_votes") = {"like"}
    /\ VoteGet(MyBlock(heap[4], "rating_votes"), "love") = 0
    /\ "love" \in DOMAIN MyBlock(heap[4], "rating_votes")
    /\ MyOptions(heap[4], "season_time_votes") = {"summer", "night"}
    /\ "my_gender_votes" \notin DOMAIN heap[4].my_votes
    /\ HasCommunityVote(heap[4].fragrantica)


(***************************************************************************)
(* Claims C23 and C24                                                      *)
(***************************************************************************)
\* the bucket the state dimension gives perfume p
StateBucket(p) == get_sort_value(p, "state", "owned_first")[1].v.num

\* C23: the state dimension gives bucket 0 to a label whose leading clause
\* is "Tested" and to a label whose leading clause is "Owned <v>ml", 2 to
\* the label "Wishlist", and 3 to every other label
C23_StateBuckets ==
    \A pid \in DOMAIN heap :
       LET p == heap[pid]
           label == derive_state(p, TagNames(p)).state
       IN StateBucket(p) = (IF IsTested(p) \/ IsOwned(p) THEN 0
                            ELSE IF label = "Wishlist" THEN 2
                            ELSE 3)

\* every community gender vote of p is on the option key, and there is one
VotesAllOn(p, key) ==
    LET votes == DictGet(p.fragrantica, "gender_votes")
    IN /\ VoteGet(votes, key) > 0
       /\ \A k \in KeySet(GENDER_5) \ {key} : VoteGet(votes, k) = 0

\* in the list shown, every perfume with all votes on first_key stands
\* before every perfume with all votes on second_key
ShownBefore(first_key, second_key) ==
    \A i, j \in 1..Len(filtered_ids) :
       (/\ VotesAllOn(heap[filtered_ids[i]], first_key)
        /\ VotesAllOn(heap[filtered_ids[j]], second_key)) => i < j

\* C24: sorted by gender alone, female_first shows an all-female perfume
\* before an all-male one, male_first the all-male one first, and
\* unisex_first an all-unisex perfume before both
C24_GenderModes ==
    /\ sort_config.dimensions = << <<"gender", "female_first">> >>
          => ShownBefore("female", "male")
    /\ sort_config.dimensions = << <<"gender", "male_first">> >>
          => ShownBefore("male", "female")
    /\ sort_config.dimensions = << <<"gender", "unisex_first">> >>
          => ShownBefore("unisex", "male") /\ ShownBefore("unisex", "female")


(***************************************************************************)
(* Claim C27                                                               *)
(***************************************************************************)
\* C27: the list save() writes, app_data.perfumes, holds exactly the
\* perfumes of App.perfumes, the list that is filtered, shown and counted
C27_SavedIsListed ==
    /\ SeqSet(app_data.perfumes) = SeqSet(perfumes)
    /\ Len(app_data.perfumes) = Len(perfumes)


(***************************************************************************)
(* Claim C28                                                               *)
(***************************************************************************)
\* C28: the count the filter dialog previews for the configuration that is
\* applied is the number of perfumes the main list shows for it
C28_PreviewIsShown ==
    count_matches(perfumes, heap, filter_config) = Len(filtered_ids)


(***************************************************************************)
(* SpecInterleaved: the Add/Edit dialog and the Manage Data dialog are     *)
(* both plain Toplevel windows without a grab, so the handlers of Manage   *)
(* Data run while an Add/Edit dialog is open.  The data file holds one     *)
(* perfume with the outlet Macys, and the outlets Sephora and Macys.       *)
(***************************************************************************)
InterleavedInit ==
    /\ CalcIdle
    /\ app_data = AppData(<<4>>, <<Entry(1, "Chanel")>>, <<>>,
                          <<Entry(2, "EDP")>>, FileOutlets("outlets"),
                          <<Entry(3, "full")>>)
    /\ perfumes = <<4>>
    /\ aliased = TRUE
    /\ heap = (4 :> [Perfume(4, "No5", 1) EXCEPT !.concentration_id = 2,
                                                 !.outlet_ids = <<7>>])
    /\ next_id = 8
    /\ filter_config = DefaultFilterConfig
    /\ sort_config = DefaultSortConfig
    /\ filtered_ids = <<4>>
    /\ dlg = DialogClosed
    /\ msg = ""

InterleavedNext ==
    \/ ui_add_perfume
    \/ \E selected \in SeqSet(filtered_ids) : ui_edit_info(selected)
    \/ \E loc_input \in {"Sephora", "Macys"} : add_location(loc_input)
    \/ \E idx \in Rows : delete_location(idx)
    \/ cancel_dialog
    \/ \E name_input \in {"No5", "Sauvage"} :
           apply_changes("Chanel", name_input, "EDP")
    \/ \E sel \in SUBSET (1..Len(CurrentMap("outlets"))) :
           MergeRows("outlets", sel, "Sephora")
    \/ \E sel \in SUBSET (1..Len(CurrentMap("outlets"))) :
           \E confirm \in BOOLEAN : DeleteRows("outlets", sel, confirm)

SpecInterleaved == InterleavedInit /\ [][InterleavedNext]_vars

(***************************************************************************)
(* Claim C29                                                               *)
(***************************************************************************)
\* C29: whatever Manage Data deletes or merges away while an Add/Edit dialog
\* holds outlet ids in its pending list, no perfume of App.perfumes holds
\* an outlet id that is absent from the outlet table
C29_NoDanglingOutlet ==
    \A pid \in SeqSet(perfumes) :
       \A oid \in SeqSet(heap[pid].outlet_ids) :
          \E i \in 1..Len(app_data.outlets_map) : app_data.outlets_map[i].id = oid


(***************************************************************************)
(* SpecEntry: the ML entry of the Add / Edit Buy and Sell forms.  The      *)
(* entry is a text; float() reads a number or "nan" from it or raises      *)
(* ValueError.  Events are also added by quick_buy and the Smell / Skin    *)
(* buttons, and deleted.                                                   *)
(***************************************************************************)
\* what float(var_ml.get() or "0") makes of the entry
NumberEntry(n) == [parsed |-> "number", val |-> n]

NanEntry == [parsed |-> "nan", val |-> 0]

WordEntry == [parsed |-> "ValueError", val |-> 0]

MlEntries == {NumberEntry(0), NumberEntry(10), NumberEntry(0 - 5), NanEntry,
              WordEntry}

\* ml if event_type == "buy" else -ml if ml else None, on a float: nan is
\* truthy and -nan is nan
FloatDelta(event_type, ml_entry) ==
    IF ml_entry.parsed = "nan" THEN NaN
    ELSE TransactionDelta(event_type, ml_entry.val)

\* do_save of EditEventsDialog._add_transaction: the form of an Add (idx = 0)
\* or of the edit of row idx of the log, with the Format and the ML entry
do_save(selected, event_type, idx, item_type, ml_entry) ==
    /\ selected \in SeqSet(filtered_ids)
    /\ idx \in 0..Len(heap[selected].events)
    /\ idx # 0 => heap[selected].events[idx].event_type = event_type
    /\ item_type \in FormatChoices(IF idx = 0 THEN DefaultFormat
                                    ELSE heap[selected].events[idx].purchase_type)
    /\ IF \/ ml_entry.parsed = "ValueError"
          \/ ml_entry.parsed = "number" /\ ml_entry.val < 0
       THEN /\ msg' = "Invalid"
            /\ UNCHANGED <<app_data, heap, next_id, filtered_ids>>
            /\ EventsFrame
       ELSE IF idx = 0
       THEN /\ AppendEvent(selected,
                           [Event(next_id, event_type,
                                  FloatDelta(event_type, ml_entry), NoId, "")
                               EXCEPT !.purchase_type = Strip(item_type)])
            /\ UNCHANGED app_data
            /\ msg' = ""
       ELSE /\ heap' = [heap EXCEPT ![selected].events[idx] =
                           [@ EXCEPT !.purchase_type = Strip(item_type),
                                     !.ml_delta = FloatDelta(event_type, ml_entry),
                                     !.note = ""]]
            /\ UNCHANGED <<app_data, next_id, filtered_ids>>
            /\ EventsFrame
            /\ msg' = ""

EntryNext ==
    \/ \E event_type \in {"buy", "sell"}, idx \in 0..MaxEvents,
          ml_entry \in MlEntries : do_save(4, event_type, idx, "full", ml_entry)
    \/ \E ml_delta \in {0 - 10, 10} : quick_buy(4, ml_delta)
    \/ \E event_type \in {"smell", "skin"} :
           add_event_simple(4, event_type, "", "")
    \/ \E idx \in 1..MaxEvents : edit_selected(4, idx, "full", 10, "Want more")
    \/ \E sel \in SUBSET (1..MaxEvents) : delete_selected(4, sel, TRUE)

SpecEntry == PurchaseInit /\ [][EntryNext]_vars

(***************************************************************************)
(* Claim C26                                                               *)
(***************************************************************************)
\* C26: in every state, the delta of a buy event, when set, is >= 0, the
\* delta of a sell event, when set, is <= 0, and a smell or skin event has
\* no delta
C26_SignContract ==
    \A pid \in SeqSet(perfumes) :
       \A e \in SeqSet(heap[pid].events) :
          /\ (e.event_type = "buy" /\ e.ml_delta # None)
                => ~IsNaN(e.ml_delta) /\ e.ml_delta[1] >= 0
          /\ (e.event_type = "sell" /\ e.ml_delta # None)
                => ~IsNaN(e.ml_delta) /\ e.ml_delta[1] <= 0
          /\ e.event_type \in {"smell", "skin"} => e.ml_delta = None

====
